---- MODULE Spec2Model ----
(***************************************************************************)
(* Block phase of the comrak (philomena fork) Markdown parser,             *)
(* src/parser/mod.rs: the line-driven container/leaf state machine         *)
(* (process_line and what it calls), finalization, reference-definition    *)
(* extraction and footnote linking.                                        *)
(*                                                                         *)
(* A line is a sequence of one-character strings; indices into a line are  *)
(* 0-based as in the source (At).  The AST arena is the sequence "nodes":  *)
(* a node is named by its index, 0 stands for None.                        *)
(*                                                                         *)
(* linebuf is the line buffer parse_document hands to feed and finish.     *)
(* Two variables are history only: fed, the fragments given to feed so     *)
(* far, and handed, the lines process_line has worked on; so is the field  *)
(* finalized of a node.                                                    *)
(***************************************************************************)
EXTENDS Integers, Sequences, FiniteSets, TLC

VARIABLES nodes, parser, refmap, options, events, panic, defs, phase,
          linebuf, handed, fed

vars == <<nodes, parser, refmap, options, events, panic, defs, phase,
          linebuf, handed, fed>>

(***************************************************************************)
(* Program constants.                                                      *)
(***************************************************************************)
TAB_STOP == 4
CODE_INDENT == 4
MAX_LIST_DEPTH == 100

(***************************************************************************)
(* Bounds of the model.                                                    *)
(***************************************************************************)
MaxLines == 3
MaxRefLines == 4
MaxFootnoteLines == 4
MaxDepthLines == 2
MaxFragments == 3
MaxBlockLines == 3
MaxDescLines == 6
MaxFenceLines == 3
MaxNoteLines == 3
MaxListLines == 4
MaxTabLines == 3
MaxBreakLines == 2
MaxInlineLines == 3
MaxProgressFragments == 2
\* The width of usize in bits.
UsizeBits == 4

\* usize::MAX
USIZE_MAX == 2 ^ UsizeBits - 1

(***************************************************************************)
(* Sequence helpers.                                                       *)
(***************************************************************************)
At(line, i) == line[i + 1]

Slice(s, from, to) == SubSeq(s, from + 1, to)

From(s, from) == SubSeq(s, from + 1, Len(s))

Min(a, b) == IF a < b THEN a ELSE b

Max(a, b) == IF a < b THEN b ELSE a

Last(s) == s[Len(s)]

\* n copies of the sequence s, one after the other.
Rep(s, n) == SubSeq([i \in 1..(n * Len(s)) |-> s[((i - 1) % Len(s)) + 1]], 1, n * Len(s))

RECURSIVE Flatten(_)
Flatten(ss) == IF ss = <<>> THEN <<>> ELSE Head(ss) \o Flatten(Tail(ss))

Range(s) == {s[i] : i \in DOMAIN s}

\* A function on 1..n as the sequence it is: the vector a map over a vector
\* collects into.
AsSeq(f) == SubSeq(f, 1, Len(f))

(***************************************************************************)
(* Character classes (strings.rs, ctype.rs).                               *)
(***************************************************************************)
is_line_end_char(c) == c \in {"\n", "\r"}

is_space_or_tab(c) == c \in {" ", "\t"}

isspace(c) == c \in {" ", "\t", "\n", "\r"}

isdigit(c) == c \in {"0", "1", "2", "3", "4", "5", "6", "7", "8", "9"}

DigitValue(c) == CASE c = "0" -> 0 [] c = "1" -> 1 [] c = "2" -> 2 [] c = "3" -> 3
                   [] c = "4" -> 4 [] c = "5" -> 5 [] c = "6" -> 6 [] c = "7" -> 7
                   [] c = "8" -> 8 [] OTHER -> 9

\* The grave accent (byte 96, BT in the scanner patterns below), as an atom.
Backtick == "BT"

\* Length of the run of bytes satisfying a class, starting at 0-based i.
RECURSIVE RunLen(_, _, _)
RunLen(s, i, cls) == IF i < Len(s) /\ At(s, i) \in cls THEN 1 + RunLen(s, i + 1, cls) ELSE 0

is_blank(s) == \A i \in DOMAIN s : isspace(s[i])

RECURSIVE rtrim(_)
rtrim(s) == IF s # <<>> /\ isspace(Last(s)) THEN rtrim(SubSeq(s, 1, Len(s) - 1)) ELSE s

RECURSIVE ltrim(_)
ltrim(s) == IF s # <<>> /\ isspace(Head(s)) THEN ltrim(Tail(s)) ELSE s

trim(s) == ltrim(rtrim(s))

(***************************************************************************)
(* Scanners (scanners.rs): each takes the line from first_nonspace on and  *)
(* returns the match length, 0 standing for None.                          *)
(***************************************************************************)
WsThenEol(s, i) == LET j == i + RunLen(s, i, {" ", "\t"})
                   IN j < Len(s) /\ is_line_end_char(At(s, j))

\* [#]{1,6} ([ \t]+ | [\r\n])
atx_heading_start(s) ==
    LET n == RunLen(s, 0, {"#"})
    IN IF n < 1 \/ n > 6 \/ n >= Len(s) THEN 0
       ELSE IF is_space_or_tab(At(s, n)) THEN n + RunLen(s, n, {" ", "\t"})
       ELSE IF is_line_end_char(At(s, n)) THEN n + 1
       ELSE 0

\* BT{3,} / [^BT\r\n\x00]*[\r\n]   |   [~]{3,} / [^\r\n\x00]*[\r\n]
open_code_fence(s) ==
    IF s = <<>> \/ At(s, 0) \notin {Backtick, "~"} THEN 0
    ELSE LET c == At(s, 0)
             n == RunLen(s, 0, {c})
             eol == CHOOSE j \in n..Len(s) :
                        /\ (j = Len(s) \/ is_line_end_char(At(s, j)))
                        /\ \A k \in n..(j - 1) : ~is_line_end_char(At(s, k))
         IN IF n < 3 \/ eol = Len(s) THEN 0
            ELSE IF c = Backtick /\ \E k \in n..(eol - 1) : At(s, k) = Backtick THEN 0
            ELSE n

\* BT{3,} / [ \t]*[\r\n]   |   [~]{3,} / [ \t]*[\r\n]
close_code_fence(s) ==
    IF s = <<>> \/ At(s, 0) \notin {Backtick, "~"} THEN 0
    ELSE LET n == RunLen(s, 0, {At(s, 0)})
         IN IF n >= 3 /\ WsThenEol(s, n) THEN n ELSE 0

\* [=]+ [ \t]* [\r\n] -> Equals;  [-]+ [ \t]* [\r\n] -> Hyphen;  "" for None
setext_heading_line(s) ==
    IF s = <<>> \/ At(s, 0) \notin {"=", "-"} THEN ""
    ELSE LET n == RunLen(s, 0, {At(s, 0)})
         IN IF WsThenEol(s, n) THEN At(s, 0) ELSE ""

\* "[^" followed by one or more bytes other than "]", space, CR, LF, NUL, tab,
\* then "]:" and any spaces or tabs
footnote_definition(s) ==
    IF Len(s) < 2 \/ At(s, 0) # "[" \/ At(s, 1) # "^" THEN 0
    ELSE LET n == RunLen(s, 2, {c \in Range(s) : c \notin {"]", " ", "\r", "\n", "\t"}})
             e == 2 + n
         IN IF n >= 1 /\ e + 1 < Len(s) /\ At(s, e) = "]" /\ At(s, e + 1) = ":"
            THEN e + 2 + RunLen(s, e + 2, {" ", "\t"})
            ELSE 0

\* [>]{3,} / [ \t]*[\r\n]
open_multiline_block_quote_fence(s) ==
    LET n == RunLen(s, 0, {">"})
    IN IF n >= 3 /\ WsThenEol(s, n) THEN n ELSE 0

\* [>]{3,} / [ \t]*[\r\n]
close_multiline_block_quote_fence(s) ==
    LET n == RunLen(s, 0, {">"})
    IN IF n >= 3 /\ WsThenEol(s, n) THEN n ELSE 0

(***************************************************************************)
(* AST nodes and the arena tree (nodes.rs, arena_tree.rs).                 *)
(***************************************************************************)
LineColumn(l, c) == [line |-> l, column |-> c]

\* Ast::new: the end of a fresh node is (start.line, 0).  finalized is
\* history: the number of times finalize_borrowed has closed the node.
AstNew(value, l, c) ==
    [value |-> value, content |-> <<>>,
     sourcepos |-> [start |-> LineColumn(l, c), end |-> LineColumn(l, 0)],
     internal_offset |-> 0, open |-> TRUE, last_line_blank |-> FALSE,
     table_visited |-> FALSE, parent |-> 0, children |-> <<>>, finalized |-> 0]

Kind(ns, n) == ns[n].value.kind

parent_of(ns, n) == ns[n].parent

first_child(ns, n) == IF ns[n].children = <<>> THEN 0 ELSE Head(ns[n].children)

last_child(ns, n) == IF ns[n].children = <<>> THEN 0 ELSE Last(ns[n].children)

IndexIn(seq, x) == CHOOSE i \in DOMAIN seq : seq[i] = x

next_sibling(ns, n) ==
    IF ns[n].parent = 0 THEN 0
    ELSE LET sibs == ns[ns[n].parent].children
             i == IndexIn(sibs, n)
         IN IF i < Len(sibs) THEN sibs[i + 1] ELSE 0

previous_sibling(ns, n) ==
    IF ns[n].parent = 0 THEN 0
    ELSE LET sibs == ns[ns[n].parent].children
             i == IndexIn(sibs, n)
         IN IF i > 1 THEN sibs[i - 1] ELSE 0

RemoveFrom(seq, x) == SelectSeq(seq, LAMBDA y : y # x)

detach(ns, n) ==
    IF ns[n].parent = 0 THEN ns
    ELSE LET par == ns[n].parent
         IN [ns EXCEPT ![par].children = RemoveFrom(@, n), ![n].parent = 0]

\* Node::append detaches the new child first, then links it as last child.
append(ns, par, n) ==
    LET d == detach(ns, n)
    IN [d EXCEPT ![par].children = Append(@, n), ![n].parent = par]

(***************************************************************************)
(* Loops.  A loop of the program is a pair of operators: the Step is one   *)
(* pass of the loop body on the loop's variables r, with r.done set by the *)
(* pass that leaves the loop, and the Loop runs up to n passes, the first  *)
(* half of them and then, unless that half is done, the rest.  Every use   *)
(* passes an n the loop cannot exceed.                                     *)
(***************************************************************************)
\* A loop that used up its passes without leaving has no value.
Ended(r) == IF r.done THEN r ELSE CHOOSE x \in {} : TRUE

\* Node::ancestors, the node itself left out: one step to the parent.
AncestorsStep(ns, r) ==
    IF ns[r.node].parent = 0 THEN [r EXCEPT !.done = TRUE]
    ELSE [node |-> ns[r.node].parent, up |-> r.up \cup {ns[r.node].parent}, done |-> FALSE]

RECURSIVE AncestorsLoop(_, _, _)
AncestorsLoop(ns, r, n) ==
    IF n <= 1 THEN AncestorsStep(ns, r)
    ELSE LET half == AncestorsLoop(ns, r, n \div 2)
         IN IF half.done THEN half ELSE AncestorsLoop(ns, half, n - n \div 2)

Ancestors(ns, n) == Ended(AncestorsLoop(ns, [node |-> n, up |-> {}, done |-> FALSE], Len(ns))).up

\* Node::descendants, in document order: the node on top of the stack is
\* visited and gives way to its children.
PreorderStep(ns, r) ==
    IF r.stack = <<>> THEN [r EXCEPT !.done = TRUE]
    ELSE [stack |-> ns[Head(r.stack)].children \o Tail(r.stack),
          out |-> Append(r.out, Head(r.stack)), done |-> FALSE]

RECURSIVE PreorderLoop(_, _, _)
PreorderLoop(ns, r, n) ==
    IF n <= 1 THEN PreorderStep(ns, r)
    ELSE LET half == PreorderLoop(ns, r, n \div 2)
         IN IF half.done THEN half ELSE PreorderLoop(ns, half, n - n \div 2)

Preorder(ns, n) ==
    Ended(PreorderLoop(ns, [stack |-> <<n>>, out |-> <<>>, done |-> FALSE], Len(ns) + 1)).out

BlockKinds == {"Document", "BlockQuote", "FootnoteDefinition", "List", "DescriptionList",
               "DescriptionItem", "DescriptionTerm", "DescriptionDetails", "Item",
               "CodeBlock", "HtmlBlock", "Paragraph", "Heading", "ThematicBreak",
               "Table", "TableRow", "TableCell", "TaskItem", "MultilineBlockQuote"}

block(kind) == kind \in BlockKinds

accepts_lines(kind) == kind \in {"Paragraph", "Heading", "CodeBlock"}

contains_inlines(kind) == kind \in {"Paragraph", "Heading", "TableCell"}

can_contain_type(ns, n, child) ==
    IF child = "Document" THEN FALSE
    ELSE IF child = "FrontMatter" THEN Kind(ns, n) = "Document"
    ELSE CASE Kind(ns, n) \in {"Document", "BlockQuote", "FootnoteDefinition", "DescriptionTerm",
                                "DescriptionDetails", "Item", "TaskItem", "MultilineBlockQuote"}
                 -> block(child) /\ child \notin {"Item", "TaskItem"}
           [] Kind(ns, n) = "List" -> child \in {"Item", "TaskItem"}
           [] Kind(ns, n) = "DescriptionList" -> child = "DescriptionItem"
           [] Kind(ns, n) = "DescriptionItem" -> child \in {"DescriptionTerm", "DescriptionDetails"}
           [] Kind(ns, n) \in {"Paragraph", "Heading"} -> ~block(child)
           [] OTHER -> FALSE

last_child_is_open(ns, n) == ns[n].children # <<>> /\ ns[Last(ns[n].children)].open

\* One pass of the loop of ends_with_blank_line, down the last children of
\* lists and items.
EndsWithBlankLineStep(ns, r) ==
    IF ns[r.node].last_line_blank THEN [r EXCEPT !.blank = TRUE, !.done = TRUE]
    ELSE IF Kind(ns, r.node) \in {"List", "Item", "TaskItem"} /\ ns[r.node].children # <<>>
         THEN [r EXCEPT !.node = Last(ns[r.node].children)]
         ELSE [r EXCEPT !.done = TRUE]

RECURSIVE EndsWithBlankLineLoop(_, _, _)
EndsWithBlankLineLoop(ns, r, n) ==
    IF n <= 1 THEN EndsWithBlankLineStep(ns, r)
    ELSE LET half == EndsWithBlankLineLoop(ns, r, n \div 2)
         IN IF half.done THEN half ELSE EndsWithBlankLineLoop(ns, half, n - n \div 2)

ends_with_blank_line(ns, n) ==
    Ended(EndsWithBlankLineLoop(ns, [node |-> n, blank |-> FALSE, done |-> FALSE], Len(ns))).blank

(***************************************************************************)
(* The parser.  The operators below work on a record s holding the whole   *)
(* program state: s.nodes (the arena), s.pr (the Parser's scalar fields),  *)
(* s.refmap, s.opt (Options), s.panic (the first failed assert!, unwrap,   *)
(* index or subtraction; "" while none) and s.ev, the log of what the      *)
(* current process_line call has done.                                     *)
(***************************************************************************)
ROOT == 1

\* Call(op, a) applies the method named op to the arguments a.
RECURSIVE Call(_, _)

Fail(s, what) == IF s.panic = "" THEN [s EXCEPT !.panic = what] ELSE s

Log(s, e) == [s EXCEPT !.ev = Append(@, e)]

\* The loop of find_first_nonspace: the run of spaces up to the next tab or
\* other byte is taken at once (each space moves one column and counts
\* chars_to_tab down, from 1 back to TAB_STOP), then a tab, then the rest.
RECURSIVE SkipSpaces(_, _, _, _)
SkipSpaces(line, fn, fnc, chars_to_tab) ==
    LET others == {j \in fn..(Len(line) - 1) : At(line, j) # " "}
        stop == IF others = {} THEN Len(line)
                ELSE CHOOSE j \in others : \A k \in others : j <= k
        n == stop - fn
        column == fnc + n
        to_tab == ((chars_to_tab - 1 - n) % TAB_STOP) + 1
    IN IF fn >= Len(line) THEN [fn |-> fn, fnc |-> fnc]
       ELSE IF stop < Len(line) /\ At(line, stop) = "\t"
       THEN SkipSpaces(line, stop + 1, column + to_tab, TAB_STOP)
       ELSE [fn |-> stop, fnc |-> column]

\* find_first_nonspace that takes a line end for a byte like any other: no
\* line is blank.
FindNeverBlankMutant(s, line) ==
    LET pr == s.pr
        r == IF pr.first_nonspace <= pr.offset
             THEN SkipSpaces(line, pr.offset, pr.column, TAB_STOP - (pr.column % TAB_STOP))
             ELSE [fn |-> pr.first_nonspace, fnc |-> pr.first_nonspace_column]
    IN IF s.panic # "" THEN s
       ELSE IF r.fnc < pr.column THEN Fail(s, "underflow: first_nonspace_column - column")
       ELSE [s EXCEPT !.pr.first_nonspace = r.fn,
                      !.pr.first_nonspace_column = r.fnc,
                      !.pr.indent = r.fnc - pr.column,
                      !.pr.blank = FALSE]

find_first_nonspace(s, line) ==
    LET pr == s.pr
        r == IF pr.first_nonspace <= pr.offset
             THEN SkipSpaces(line, pr.offset, pr.column, TAB_STOP - (pr.column % TAB_STOP))
             ELSE [fn |-> pr.first_nonspace, fnc |-> pr.first_nonspace_column]
    IN IF s.panic # "" THEN s
       ELSE IF r.fnc < pr.column THEN Fail(s, "underflow: first_nonspace_column - column")
       ELSE [s EXCEPT !.pr.first_nonspace = r.fn,
                      !.pr.first_nonspace_column = r.fnc,
                      !.pr.indent = r.fnc - pr.column,
                      !.pr.blank = r.fn < Len(line) /\ is_line_end_char(At(line, r.fn))]

\* One pass of the loop of advance_offset on [s, count].
AdvanceStep(r, line, columns) ==
    LET s == r.s
        chars_to_tab == TAB_STOP - (s.pr.column % TAB_STOP)
        partial == chars_to_tab > r.count
        chars_to_advance == Min(r.count, chars_to_tab)
    IN IF s.panic # "" \/ r.count = 0 THEN [r EXCEPT !.done = TRUE]
       ELSE IF s.pr.offset >= Len(line)
       THEN [r EXCEPT !.s = Fail(s, "index out of range: line[offset]"), !.done = TRUE]
       ELSE IF At(line, s.pr.offset) = "\t" /\ columns
       THEN [r EXCEPT !.s.pr.partially_consumed_tab = partial,
                      !.s.pr.column = @ + chars_to_advance,
                      !.s.pr.offset = @ + (IF partial THEN 0 ELSE 1),
                      !.count = @ - chars_to_advance]
       ELSE IF At(line, s.pr.offset) = "\t"
       THEN [r EXCEPT !.s.pr.partially_consumed_tab = FALSE,
                      !.s.pr.column = @ + chars_to_tab,
                      !.s.pr.offset = @ + 1,
                      !.count = @ - 1]
       ELSE [r EXCEPT !.s.pr.partially_consumed_tab = FALSE,
                      !.s.pr.offset = @ + 1,
                      !.s.pr.column = @ + 1,
                      !.count = @ - 1]

RECURSIVE AdvanceLoop(_, _, _, _)
AdvanceLoop(r, line, columns, n) ==
    IF n <= 1 THEN AdvanceStep(r, line, columns)
    ELSE LET half == AdvanceLoop(r, line, columns, n \div 2)
         IN IF half.done THEN half ELSE AdvanceLoop(half, line, columns, n - n \div 2)

\* A count below zero is the subtraction at the call that went below zero.
advance_offset(s, line, count, columns) ==
    IF s.panic # "" THEN s
    ELSE IF count < 0 THEN Fail(s, "underflow: advance_offset count")
    ELSE Ended(AdvanceLoop([s |-> s, count |-> count, done |-> FALSE], line, columns, count + 1)).s

\* The loop of scan_thematic_break_inner from byte fn on, <<offset, found>>:
\* it runs over bytes equal to c, spaces and tabs, counting the former (the
\* byte at fn is the first), and ends at the first other byte or at the end
\* of the line.
ThematicScan(line, fn, c) ==
    LET others == {j \in (fn + 1)..(Len(line) - 1) : At(line, j) \notin {c, " ", "\t"}}
        i == CHOOSE j \in others : \A k \in others : j <= k
        count == 1 + Cardinality({j \in (fn + 1)..(i - 1) : At(line, j) = c})
    IN IF others = {} THEN <<Max(fn + 1, Len(line)), FALSE>>
       ELSE IF count >= 3 /\ At(line, i) \in {"\r", "\n"} THEN <<(i - fn) + 1, TRUE>>
       ELSE <<i, FALSE>>

scan_thematic_break_inner(s, line) ==
    LET i == s.pr.first_nonspace
    IN IF i >= Len(line) THEN <<i, FALSE>>
       ELSE IF At(line, i) \notin {"*", "_", "-"} THEN <<i, FALSE>>
       ELSE ThematicScan(line, i, At(line, i))

\* The scan that puts the kill position at the end of the line.
ScanKillsLineMutant(s, line) ==
    LET r == Call("scan_thematic_break_inner", <<s, line>>)
    IN IF ~r[2] THEN [s |-> [s EXCEPT !.pr.thematic_break_kill_pos = Len(line)], matched |-> 0]
       ELSE [s |-> s, matched |-> r[1]]

\* [s, matched]: matched = 0 stands for None, and then the kill position is set.
scan_thematic_break(s, line) ==
    LET r == Call("scan_thematic_break_inner", <<s, line>>)
    IN IF ~r[2] THEN [s |-> [s EXCEPT !.pr.thematic_break_kill_pos = r[1]], matched |-> 0]
       ELSE [s |-> s, matched |-> r[1]]

\* The add_line that puts a whole tab stop of spaces for a tab taken in part.
AddLineFullTabMutant(s, node, line) ==
    IF s.panic # "" THEN s
    ELSE IF ~s.nodes[node].open THEN Fail(Log(s, [ev |-> "add_line", node |-> node, open |-> FALSE]),
                                          "assert!(ast.open) in add_line")
    ELSE LET pct == s.pr.partially_consumed_tab
             off == IF pct THEN s.pr.offset + 1 ELSE s.pr.offset
             pad == IF pct THEN Rep(<<" ">>, TAB_STOP) ELSE <<>>
             rest == IF off < Len(line) THEN From(line, off) ELSE <<>>
         IN Log([s EXCEPT !.pr.offset = off,
                          !.nodes[node].content = @ \o pad \o rest],
                [ev |-> "add_line", node |-> node, open |-> TRUE,
                 offset |-> s.pr.offset, column |-> s.pr.column, tab |-> pct])

add_line(s, node, line) ==
    IF s.panic # "" THEN s
    ELSE IF ~s.nodes[node].open THEN Fail(Log(s, [ev |-> "add_line", node |-> node, open |-> FALSE]),
                                          "assert!(ast.open) in add_line")
    ELSE LET pct == s.pr.partially_consumed_tab
             off == IF pct THEN s.pr.offset + 1 ELSE s.pr.offset
             pad == IF pct THEN Rep(<<" ">>, TAB_STOP - (s.pr.column % TAB_STOP)) ELSE <<>>
             rest == IF off < Len(line) THEN From(line, off) ELSE <<>>
         IN Log([s EXCEPT !.pr.offset = off,
                          !.nodes[node].content = @ \o pad \o rest],
                [ev |-> "add_line", node |-> node, open |-> TRUE,
                 offset |-> s.pr.offset, column |-> s.pr.column, tab |-> pct])

(***************************************************************************)
(* Reference definitions: the Subject helpers of inlines.rs and strings.rs *)
(* that parse_reference_inline uses, then parse_reference_inline itself.   *)
(***************************************************************************)
Lower(c) == CASE c = "A" -> "a" [] c = "B" -> "b" [] OTHER -> c

\* Collapse each run of whitespace into one space (the input is trimmed first).
RECURSIVE Collapse(_, _)
Collapse(s, last_was_whitespace) ==
    IF s = <<>> THEN <<>>
    ELSE IF isspace(Head(s))
         THEN (IF last_was_whitespace THEN <<>> ELSE <<" ">>) \o Collapse(Tail(s), TRUE)
         ELSE <<Head(s)>> \o Collapse(Tail(s), FALSE)

\* Case::DontPreserve folds the case, Case::Preserve keeps it.
normalize_label(i, preserve) ==
    LET v == Collapse(trim(i), FALSE)
    IN IF preserve THEN v ELSE AsSeq([k \in DOMAIN v |-> Lower(v[k])])

skip_spaces(input, pos) == pos + RunLen(input, pos, {" ", "\t"})

skip_line_end(input, pos) ==
    LET p1 == IF pos < Len(input) /\ At(input, pos) = "\r" THEN pos + 1 ELSE pos
        p2 == IF p1 < Len(input) /\ At(input, p1) = "\n" THEN p1 + 1 ELSE p1
    IN [ok |-> p2 > pos \/ p2 >= Len(input), pos |-> p2]

spnl(input, pos) ==
    LET p1 == Call("skip_spaces", <<input, pos>>)
        r == Call("skip_line_end", <<input, p1>>)
    IN IF r.ok THEN Call("skip_spaces", <<input, r.pos>>) ELSE p1

\* [ok, label, pos]: the label between "[" and the first "]", trimmed.
link_label(input, pos) ==
    IF pos >= Len(input) \/ At(input, pos) # "[" THEN [ok |-> FALSE, label |-> <<>>, pos |-> pos]
    ELSE LET n == RunLen(input, pos + 1, {c \in Range(input) : c \notin {"[", "]"}})
             e == pos + 1 + n
         IN IF e < Len(input) /\ At(input, e) = "]"
            THEN [ok |-> TRUE, label |-> trim(Slice(input, pos + 1, e)), pos |-> e + 1]
            ELSE [ok |-> FALSE, label |-> <<>>, pos |-> pos]

\* [ok, url, matchlen]: a destination without angle brackets ends at the first
\* whitespace and must not be empty nor run to the end of the input.
manual_scan_link_url(input) ==
    IF input # <<>> /\ At(input, 0) = "<"
    THEN LET n == RunLen(input, 1, {c \in Range(input) : c \notin {">", "\n", "<"}})
             e == 1 + n
         IN IF e < Len(input) /\ At(input, e) = ">" /\ e + 1 < Len(input)
            THEN [ok |-> TRUE, url |-> Slice(input, 1, e), matchlen |-> e + 1]
            ELSE [ok |-> FALSE, url |-> <<>>, matchlen |-> 0]
    ELSE LET n == RunLen(input, 0, {c \in Range(input) : ~isspace(c) /\ c \notin {"(", ")"}})
         IN IF n = 0 \/ n >= Len(input)
            THEN [ok |-> FALSE, url |-> <<>>, matchlen |-> 0]
            ELSE [ok |-> TRUE, url |-> Slice(input, 0, n), matchlen |-> n]

\* A title in single quotes; the match length, 0 for None.
link_title(input) ==
    IF input = <<>> \/ At(input, 0) # "'" THEN 0
    ELSE LET n == RunLen(input, 1, {c \in Range(input) : c # "'"})
         IN IF 1 + n < Len(input) THEN n + 2 ELSE 0

clean_url(url) == trim(url)

clean_title(title) == IF title = <<>> THEN <<>> ELSE Slice(title, 1, Len(title) - 1)

Newlines(s) == Cardinality({i \in DOMAIN s : s[i] = "\n"})

\* The insertion that replaces an entry already present.
RefmapInsertMutant(map, lab, reference) ==
    [x \in DOMAIN map \cup {lab} |-> IF x = lab THEN reference ELSE map[x]]

\* map.entry(lab).or_insert(reference)
RefmapInsert(map, lab, reference) ==
    [x \in DOMAIN map \cup {lab} |-> IF x \in DOMAIN map THEN map[x] ELSE reference]

\* [s, pos]: pos = 0 stands for None.  docline is the document line of content's
\* first byte; it goes into the log of definitions s.defs only.
parse_reference_inline(s, content, docline) ==
    LET none == [s |-> s, pos |-> 0]
        lab == Call("link_label", <<content, 0>>)
    IN IF ~lab.ok \/ lab.label = <<>> THEN none
       ELSE IF lab.pos >= Len(content) \/ At(content, lab.pos) # ":" THEN none
       ELSE LET p1 == Call("spnl", <<content, lab.pos + 1>>)
                u == Call("manual_scan_link_url", <<From(content, p1)>>)
            IN IF ~u.ok THEN none
               ELSE LET beforetitle == p1 + u.matchlen
                        p2 == Call("spnl", <<content, beforetitle>>)
                        title_search == IF p2 = beforetitle THEN 0
                                        ELSE Call("link_title", <<From(content, p2)>>)
                        title == IF title_search > 0 THEN Slice(content, p2, p2 + title_search)
                                 ELSE <<>>
                        p3 == IF title_search > 0 THEN p2 + title_search ELSE beforetitle
                        e1 == Call("skip_line_end", <<content, Call("skip_spaces", <<content, p3>>)>>)
                        e2 == Call("skip_line_end", <<content, Call("skip_spaces", <<content, beforetitle>>)>>)
                        endpos == IF e1.ok THEN e1.pos
                                  ELSE IF title # <<>> /\ e2.ok THEN e2.pos
                                  ELSE 0
                        \* when the title does not end its line the definition ends before
                        \* the title, and the title scanned is stored all the same
                        kept_title == title
                        label == Call("normalize_label", <<lab.label, FALSE>>)
                        reference == [url |-> clean_url(u.url), title |-> clean_title(kept_title)]
                    IN IF endpos = 0 THEN none
                       ELSE [s |-> [s EXCEPT
                                      !.refmap = IF label # <<>>
                                                 THEN RefmapInsert(@, label, reference)
                                                 ELSE @,
                                      !.defs = Append(@, [label |-> label, raw |-> lab.label,
                                                          reference |-> reference,
                                                          line |-> docline])],
                             pos |-> endpos]

\* The loop of resolve_reference_link_definitions: [s, seeked].
RECURSIVE ResolveLoop(_, _, _, _)
ResolveLoop(s, seek, seeked, docline) ==
    IF seek = <<>> \/ Head(seek) # "[" THEN [s |-> s, seeked |-> seeked]
    ELSE LET r == Call("parse_reference_inline", <<s, seek, docline>>)
         IN IF r.pos = 0 THEN [s |-> s, seeked |-> seeked]
            ELSE ResolveLoop(r.s, From(seek, r.pos), seeked + r.pos,
                             docline + Newlines(Slice(seek, 0, r.pos)))

\* [s, has_content], on the content buffer of node.
resolve_reference_link_definitions(s, node) ==
    LET content == s.nodes[node].content
        r == ResolveLoop(s, content, 0, s.nodes[node].sourcepos.start.line)
        rest == IF r.seeked # 0 THEN From(content, r.seeked) ELSE content
    IN [s |-> [r.s EXCEPT !.nodes[node].content = rest], has_content |-> ~is_blank(rest)]

(***************************************************************************)
(* Finalization.                                                           *)
(***************************************************************************)
\* strings::remove_trailing_blank_lines: cut at the first line end after the
\* last byte that is not whitespace; all whitespace clears the buffer.
remove_trailing_blank_lines(content) ==
    LET solid == {i \in DOMAIN content : ~isspace(content[i])}
    IN IF solid = {} THEN <<>>
       ELSE LET i == CHOOSE k \in solid : \A m \in solid : m <= k
                ends == {k \in i..Len(content) : is_line_end_char(content[k])}
            IN IF ends = {} THEN content
               ELSE SubSeq(content, 1, (CHOOSE k \in ends : \A m \in ends : k <= m) - 1)

\* The tight computation that looks, in every item, at the blocks before
\* the last one only.
ListTightInnerOnlyMutant(ns, node) ==
    LET items == ns[node].children
        ItemLoose(k) ==
            LET item == items[k]
                subs == ns[item].children
            IN \/ k < Len(items) /\ ns[item].last_line_blank
               \/ \E j \in DOMAIN subs :
                     j < Len(subs) /\ ends_with_blank_line(ns, subs[j])
    IN ~\E k \in DOMAIN items : ItemLoose(k)

\* The tight computation of a List at its finalization.
ListTight(ns, node) ==
    LET items == ns[node].children
        ItemLoose(k) ==
            LET item == items[k]
                subs == ns[item].children
            IN \/ k < Len(items) /\ ns[item].last_line_blank
               \/ \E j \in DOMAIN subs :
                     /\ (k < Len(items) \/ j < Len(subs))
                     /\ ends_with_blank_line(ns, subs[j])
    IN ~\E k \in DOMAIN items : ItemLoose(k)

\* [s, pos]: the fenced CodeBlock case; pos is the end of the info line.
FenceInfoEnd(content) ==
    LET ends == {k \in DOMAIN content : is_line_end_char(content[k])}
    IN IF ends = {} THEN Len(content)
       ELSE (CHOOSE k \in ends : \A m \in ends : k <= m) - 1

\* [s, parent]: finalize_borrowed.  parent = 0 stands for None.  The log keeps
\* the content the node has when it is finalized.
finalize(s, node) ==
    IF s.panic # "" THEN [s |-> s, parent |-> 0]
    ELSE IF ~s.nodes[node].open
         THEN [s |-> Fail(Log(s, [ev |-> "finalize", node |-> node, open |-> FALSE]),
                          "assert!(ast.open) in finalize_borrowed"),
               parent |-> 0]
    ELSE
    LET ast == s.nodes[node]
        pr == s.pr
        kind == ast.value.kind
        parent == ast.parent
        own_fence == \/ kind = "Document"
                     \/ (kind = "CodeBlock" /\ ast.value.fenced)
                     \/ kind = "MultilineBlockQuote"
        end == IF pr.curline_len = 0 THEN LineColumn(pr.line_number, pr.last_line_length)
               ELSE IF own_fence THEN LineColumn(pr.line_number, pr.curline_end_col)
               ELSE LineColumn(pr.line_number - 1, pr.last_line_length)
        s1 == Log([s EXCEPT !.nodes[node].open = FALSE,
                            !.nodes[node].finalized = @ + 1,
                            !.nodes[node].sourcepos.end = end],
                  [ev |-> "finalize", node |-> node, open |-> TRUE, content |-> ast.content])
    IN CASE kind = "Paragraph" ->
              LET r == Call("resolve_reference_link_definitions", <<s1, node>>)
              IN [s |-> IF r.has_content THEN r.s
                        ELSE [r.s EXCEPT !.nodes = detach(@, node)],
                  parent |-> parent]
         [] kind = "CodeBlock" /\ ~ast.value.fenced ->
              [s |-> [s1 EXCEPT !.nodes[node].value.literal =
                                    remove_trailing_blank_lines(ast.content) \o <<"\n">>,
                                !.nodes[node].content = ast.value.literal],
               parent |-> parent]
         [] kind = "CodeBlock" /\ ast.value.fenced ->
              LET content == ast.content
                  pos == FenceInfoEnd(content)
              IN IF ~(pos < Len(content))
                 THEN [s |-> Fail(s1, "assert!(pos < content.len())"), parent |-> 0]
                 ELSE LET tmp == trim(Slice(content, 0, pos))
                          info == IF tmp = <<>> THEN s.opt.default_info_string ELSE tmp
                          p1 == IF At(content, pos) = "\r" THEN pos + 1 ELSE pos
                          p2 == IF At(content, p1) = "\n" THEN p1 + 1 ELSE p1
                      IN IF ~(p1 < Len(content))
                         THEN [s |-> Fail(s1, "index out of range: content[pos]"),
                               parent |-> 0]
                         ELSE
                         [s |-> [s1 EXCEPT !.nodes[node].value.info = info,
                                           !.nodes[node].value.literal = From(content, p2),
                                           !.nodes[node].content = ast.value.literal],
                          parent |-> parent]
         [] kind = "HtmlBlock" ->
              [s |-> [s1 EXCEPT !.nodes[node].value.literal = ast.content,
                                !.nodes[node].content = ast.value.literal],
               parent |-> parent]
         [] kind = "List" ->
              [s |-> [s1 EXCEPT !.nodes[node].value.nl.tight = ListTight(s.nodes, node)],
               parent |-> parent]
         [] OTHER -> [s |-> s1, parent |-> parent]

\* add_child that leaves a parent that cannot contain the child as it is and
\* goes on with the parent of it.
RECURSIVE AddChildNoFinalizeMutant(_, _, _, _)
AddChildNoFinalizeMutant(s, parent, value, start_column) ==
    IF s.panic # "" THEN [s |-> s, node |-> 0]
    ELSE IF ~can_contain_type(s.nodes, parent, value.kind)
         THEN IF s.nodes[parent].parent = 0
              THEN [s |-> Fail(s, "unwrap of None: finalize(parent) in add_child"), node |-> 0]
              ELSE AddChildNoFinalizeMutant(s, s.nodes[parent].parent, value, start_column)
    ELSE IF ~(start_column > 0)
         THEN [s |-> Fail(s, "assert!(start_column > 0)"), node |-> 0]
    ELSE LET child == AstNew(value, s.pr.line_number, start_column)
             id == Len(s.nodes) + 1
             ns == append(Append(s.nodes, child), parent, id)
         IN [s |-> Log([s EXCEPT !.nodes = ns],
                       [ev |-> "add_child", node |-> id, parent |-> parent]),
             node |-> id]

\* [s, node]: add_child.  node = 0 after a failure.
RECURSIVE add_child(_, _, _, _)
add_child(s, parent, value, start_column) ==
    IF s.panic # "" THEN [s |-> s, node |-> 0]
    ELSE IF ~can_contain_type(s.nodes, parent, value.kind)
         THEN LET f == Call("finalize", <<s, parent>>)
              IN IF f.s.panic # "" THEN [s |-> f.s, node |-> 0]
                 ELSE IF f.parent = 0
                      THEN [s |-> Fail(f.s, "unwrap of None: finalize(parent) in add_child"),
                            node |-> 0]
                 ELSE add_child(f.s, f.parent, value, start_column)
    ELSE IF ~(start_column > 0)
         THEN [s |-> Fail(s, "assert!(start_column > 0)"), node |-> 0]
    ELSE LET child == AstNew(value, s.pr.line_number, start_column)
             id == Len(s.nodes) + 1
             ns == append(Append(s.nodes, child), parent, id)
         IN [s |-> Log([s EXCEPT !.nodes = ns],
                       [ev |-> "add_child", node |-> id, parent |-> parent]),
             node |-> id]

(***************************************************************************)
(* Continuation of the open blocks: the parse_*_prefix predicates, each    *)
(* [ok, s], and check_open_blocks.                                         *)
(***************************************************************************)
\* line[i], or a failure of the index
InRange(line, i) == i < Len(line)

\* The tail of parse_block_quote_prefix once the prefix is there: the '>' and
\* one column of the space or tab after it are taken.
BlockQuoteMarker(s, line) ==
    LET s1 == Call("advance_offset", <<s, line, s.pr.indent + 1, TRUE>>)
    IN IF s1.panic # "" THEN s1
       ELSE IF ~InRange(line, s1.pr.offset) THEN Fail(s1, "index out of range: line[offset]")
       ELSE IF is_space_or_tab(At(line, s1.pr.offset)) THEN Call("advance_offset", <<s1, line, 1, TRUE>>)
       ELSE s1

\* The prefix that takes a '>' whatever byte follows it.
BlockQuotePrefixMutant(s, line) ==
    IF s.pr.indent <= 3 /\ At(line, s.pr.first_nonspace) = ">"
    THEN [ok |-> TRUE, s |-> Call("BlockQuoteMarker", <<s, line>>)]
    ELSE [ok |-> FALSE, s |-> s]

parse_block_quote_prefix(s, line) ==
    LET indent == s.pr.indent
        fn == s.pr.first_nonspace
    IN IF indent <= 3 /\ ~InRange(line, fn)
       THEN [ok |-> FALSE, s |-> Fail(s, "index out of range: line[first_nonspace]")]
       ELSE IF indent <= 3 /\ At(line, fn) = ">" /\ ~InRange(line, fn + 1)
       THEN [ok |-> FALSE, s |-> Fail(s, "index out of range: line[first_nonspace + 1]")]
       ELSE IF indent <= 3 /\ At(line, fn) = ">" /\ is_space_or_tab(At(line, fn + 1))
       THEN [ok |-> TRUE, s |-> Call("BlockQuoteMarker", <<s, line>>)]
       ELSE [ok |-> FALSE, s |-> s]

parse_footnote_definition_block_prefix(s, line) ==
    IF s.pr.indent >= 4
    THEN [ok |-> TRUE, s |-> Call("advance_offset", <<s, line, 4, TRUE>>)]
    ELSE [ok |-> line = <<"\n">> \/ line = <<"\r", "\n">>, s |-> s]

\* The prefix that a blank line matches whether the item has a child or not.
ItemPrefixAnyBlankMutant(s, line, container, marker_offset, padding) ==
    IF s.pr.indent >= marker_offset + padding
    THEN [ok |-> TRUE, s |-> Call("advance_offset", <<s, line, marker_offset + padding, TRUE>>)]
    ELSE IF s.pr.blank
    THEN [ok |-> TRUE,
          s |-> Call("advance_offset", <<s, line, s.pr.first_nonspace - s.pr.offset, FALSE>>)]
    ELSE [ok |-> FALSE, s |-> s]

\* parse_node_item_prefix and parse_description_item_prefix: the same code on
\* the marker_offset and padding of the item
ItemPrefix(s, line, container, marker_offset, padding) ==
    IF s.pr.indent >= marker_offset + padding
    THEN [ok |-> TRUE, s |-> Call("advance_offset", <<s, line, marker_offset + padding, TRUE>>)]
    ELSE IF s.pr.blank /\ first_child(s.nodes, container) # 0
    THEN [ok |-> TRUE,
          s |-> IF s.pr.first_nonspace < s.pr.offset
                THEN Fail(s, "underflow: first_nonspace - offset")
                ELSE Call("advance_offset", <<s, line, s.pr.first_nonspace - s.pr.offset, FALSE>>)]
    ELSE [ok |-> FALSE, s |-> s]

parse_node_item_prefix(s, line, container) ==
    Call("ItemPrefix", <<s, line, container, s.nodes[container].value.nl.marker_offset,
               s.nodes[container].value.nl.padding>>)

parse_description_item_prefix(s, line, container) ==
    Call("ItemPrefix", <<s, line, container, s.nodes[container].value.marker_offset,
               s.nodes[container].value.padding>>)

\* No stripping: the line goes to the code block with its indentation.
StripNothingMutant(s, line, i) == s

\* The loop that strips up to fence_offset columns of leading whitespace.
RECURSIVE StripFenceOffset(_, _, _)
StripFenceOffset(s, line, i) ==
    IF s.panic # "" \/ i <= 0 THEN s
    ELSE IF ~InRange(line, s.pr.offset) THEN Fail(s, "index out of range: line[offset]")
    ELSE IF is_space_or_tab(At(line, s.pr.offset))
         THEN StripFenceOffset(Call("advance_offset", <<s, line, 1, TRUE>>), line, i - 1)
    ELSE s

\* [ok, s, should_continue]
parse_code_block_prefix(s, line, container) ==
    LET v == s.nodes[container].value
        fn == s.pr.first_nonspace
    IN IF v.kind # "CodeBlock"
       THEN [ok |-> FALSE, s |-> Fail(s, "unreachable!()"), should_continue |-> TRUE]
       ELSE IF ~v.fenced
       THEN IF s.pr.indent >= CODE_INDENT
            THEN [ok |-> TRUE, s |-> Call("advance_offset", <<s, line, CODE_INDENT, TRUE>>),
                  should_continue |-> TRUE]
            ELSE IF s.pr.blank
            THEN [ok |-> TRUE,
                  s |-> Call("advance_offset", <<s, line, s.pr.first_nonspace - s.pr.offset, FALSE>>),
                  should_continue |-> TRUE]
            ELSE [ok |-> FALSE, s |-> s, should_continue |-> TRUE]
       ELSE IF ~InRange(line, fn)
       THEN [ok |-> FALSE, s |-> Fail(s, "index out of range: line[first_nonspace]"),
             should_continue |-> TRUE]
       ELSE LET matched == IF s.pr.indent <= 3 /\ At(line, fn) = v.fence_char
                           THEN close_code_fence(From(line, fn))
                           ELSE 0
            IN IF matched >= v.fence_length
               THEN LET s1 == Call("advance_offset", <<s, line, matched, FALSE>>)
                        f == Call("finalize", <<Log(s1, [ev |-> "fence_close", node |-> container]),
                                      container>>)
                    IN [ok |-> FALSE,
                        s |-> IF f.s.panic # "" THEN f.s
                              ELSE IF f.parent = 0 THEN Fail(f.s, "unwrap of None: finalize")
                              ELSE [f.s EXCEPT !.pr.current = f.parent],
                        should_continue |-> FALSE]
               ELSE [ok |-> TRUE, s |-> StripFenceOffset(s, line, v.fence_offset),
                     should_continue |-> TRUE]

parse_html_block_prefix(s, t) ==
    IF t \in 1..5 THEN [ok |-> TRUE, s |-> s]
    ELSE IF t \in {6, 7} THEN [ok |-> ~s.pr.blank, s |-> s]
    ELSE [ok |-> FALSE, s |-> Fail(s, "unreachable!()")]

\* What the closing fence of a multiline block quote finalizes below the quote:
\* its last child, when that child is open.
FinalizeLastChild(s, container) ==
    IF last_child_is_open(s.nodes, container)
    THEN Call("finalize", <<s, last_child(s.nodes, container)>>).s
    ELSE s

\* [ok, s, should_continue]
parse_multiline_block_quote_prefix(s, line, container) ==
    LET v == s.nodes[container].value
        fn == s.pr.first_nonspace
    IN IF v.kind # "MultilineBlockQuote"
       THEN [ok |-> FALSE, s |-> Fail(s, "unreachable!()"), should_continue |-> TRUE]
       ELSE IF ~InRange(line, fn)
       THEN [ok |-> FALSE, s |-> Fail(s, "index out of range: line[first_nonspace]"),
             should_continue |-> TRUE]
       ELSE LET matched == IF s.pr.indent <= 3 /\ At(line, fn) = ">"
                           THEN close_multiline_block_quote_fence(From(line, fn))
                           ELSE 0
            IN IF matched >= v.fence_length
               THEN LET s1 == Call("advance_offset", <<s, line, matched, FALSE>>)
                        s2 == Call("FinalizeLastChild", <<Log(s1, [ev |-> "fence_close", node |-> container]),
                                                container>>)
                        f == Call("finalize", <<s2, container>>)
                    IN [ok |-> FALSE,
                        s |-> IF f.s.panic # "" THEN f.s
                              ELSE IF f.parent = 0 THEN Fail(f.s, "unwrap of None: finalize")
                              ELSE [f.s EXCEPT !.pr.current = f.parent],
                        should_continue |-> FALSE]
               ELSE [ok |-> TRUE, s |-> StripFenceOffset(s, line, v.fence_offset),
                     should_continue |-> TRUE]

\* The continuation predicate of one open block: [ok, s, should_continue].
ContinuePrefix(s, line, container) ==
    LET kind == Kind(s.nodes, container)
        plain(r) == [ok |-> r.ok, s |-> r.s, should_continue |-> TRUE]
    IN CASE kind = "BlockQuote" -> plain(Call("parse_block_quote_prefix", <<s, line>>))
         [] kind = "Item" -> plain(Call("parse_node_item_prefix", <<s, line, container>>))
         [] kind = "DescriptionItem" -> plain(Call("parse_description_item_prefix", <<s, line, container>>))
         [] kind = "CodeBlock" -> Call("parse_code_block_prefix", <<s, line, container>>)
         [] kind = "HtmlBlock" ->
                plain(Call("parse_html_block_prefix", <<s, s.nodes[container].value.block_type>>))
         [] kind = "Paragraph" -> [ok |-> ~s.pr.blank, s |-> s, should_continue |-> TRUE]
         [] kind \in {"Heading", "TableRow", "TableCell"} ->
                [ok |-> FALSE, s |-> s, should_continue |-> TRUE]
         [] kind = "FootnoteDefinition" ->
                plain(Call("parse_footnote_definition_block_prefix", <<s, line>>))
         [] kind = "MultilineBlockQuote" -> Call("parse_multiline_block_quote_prefix", <<s, line, container>>)
         [] OTHER -> [ok |-> TRUE, s |-> s, should_continue |-> TRUE]

\* One pass of the loop of check_open_blocks_inner on
\* [all_matched, container, should_continue, s].
CheckOpenBlocksStep(r, line) ==
    LET s == r.s
        c == last_child(s.nodes, r.container)
        s1 == Call("find_first_nonspace", <<s, line>>)
        p == Call("ContinuePrefix", <<s1, line, c>>)
        s2 == Log(p.s, [ev |-> "prefix", node |-> c, kind |-> Kind(s.nodes, c),
                        ok |-> p.ok, indent |-> s1.pr.indent,
                        fn |-> s1.pr.first_nonspace, offset |-> p.s.pr.offset,
                        column |-> p.s.pr.column, column0 |-> s.pr.column,
                        tab |-> p.s.pr.partially_consumed_tab,
                        offset0 |-> s.pr.offset, fnc |-> s1.pr.first_nonspace_column,
                        blank |-> s1.pr.blank])
    IN IF s.panic # "" \/ ~last_child_is_open(s.nodes, r.container)
       THEN [r EXCEPT !.done = TRUE]
       ELSE IF ~p.ok
       THEN [all_matched |-> FALSE, container |-> c,
             should_continue |-> p.should_continue, s |-> s2, done |-> TRUE]
       ELSE [r EXCEPT !.container = c, !.s = s2]

RECURSIVE CheckOpenBlocksLoop(_, _, _)
CheckOpenBlocksLoop(r, line, n) ==
    IF n <= 1 THEN CheckOpenBlocksStep(r, line)
    ELSE LET half == CheckOpenBlocksLoop(r, line, n \div 2)
         IN IF half.done THEN half ELSE CheckOpenBlocksLoop(half, line, n - n \div 2)

\* Every pass but the last goes one node down the tree.
check_open_blocks_inner(s, container, line) ==
    Ended(CheckOpenBlocksLoop([all_matched |-> TRUE, container |-> container,
                         should_continue |-> TRUE, s |-> s, done |-> FALSE],
                        line, Len(s.nodes)))

\* [s, container, all_matched]: container = 0 stands for None.
check_open_blocks(s, line) ==
    LET r == Call("check_open_blocks_inner", <<s, ROOT, line>>)
        container == IF r.all_matched THEN r.container ELSE parent_of(r.s.nodes, r.container)
    IN IF r.s.panic # "" THEN [s |-> r.s, container |-> 0, all_matched |-> r.all_matched]
       ELSE IF container = 0
       THEN [s |-> Fail(r.s, "unwrap of None: container.parent()"), container |-> 0,
             all_matched |-> r.all_matched]
       ELSE [s |-> r.s, container |-> IF r.should_continue THEN container ELSE 0,
             all_matched |-> r.all_matched]

(***************************************************************************)
(* Opening new blocks.                                                     *)
(***************************************************************************)
NodeList(list_type, start, delimiter, bullet_char) ==
    [list_type |-> list_type, marker_offset |-> 0, padding |-> 0, start |-> start,
     delimiter |-> delimiter, bullet_char |-> bullet_char, tight |-> FALSE]

RECURSIVE DigitsValue(_, _, _)
DigitsValue(line, pos, n) ==
    IF n = 0 THEN 0 ELSE 10 * DigitsValue(line, pos, n - 1) + DigitValue(At(line, pos + n - 1))

\* Whether only spaces and tabs separate byte pos from the end of the line.
OnlySpaceToEnd(line, pos, ends) ==
    LET i == pos + RunLen(line, pos, {" ", "\t"})
    IN i < Len(line) /\ At(line, i) \in ends

\* [ok, matched, nl]
parse_list_marker(line, pos, interrupts_paragraph) ==
    LET none == [ok |-> FALSE, matched |-> 0, nl |-> NodeList("Bullet", 1, "Period", "")]
        c == At(line, pos)
    IN IF c \in {"*", "-", "+"}
       THEN IF ~isspace(At(line, pos + 1)) THEN none
            ELSE IF interrupts_paragraph /\ OnlySpaceToEnd(line, pos + 1, {"\n"}) THEN none
            ELSE [ok |-> TRUE, matched |-> 1, nl |-> NodeList("Bullet", 1, "Period", c)]
       ELSE IF isdigit(c)
       THEN LET digits == Min(RunLen(line, pos, {"0", "1", "2", "3", "4", "5", "6", "7", "8", "9"}), 9)
                start == DigitsValue(line, pos, digits)
                p == pos + digits
                d == At(line, p)
            IN IF interrupts_paragraph /\ start # 1 THEN none
               ELSE IF d \notin {".", ")"} THEN none
               ELSE IF ~isspace(At(line, p + 1)) THEN none
               ELSE IF interrupts_paragraph /\ OnlySpaceToEnd(line, p + 1, {"\n", "\r"}) THEN none
               ELSE [ok |-> TRUE, matched |-> (p + 1) - pos,
                     nl |-> NodeList("Ordered", start, IF d = "." THEN "Period" ELSE "Paren", "")]
       ELSE none

\* The comparison that leaves the bullet character out.
ListsMatchNoBulletMutant(list_data, item_data) ==
    /\ list_data.list_type = item_data.list_type
    /\ list_data.delimiter = item_data.delimiter

lists_match(list_data, item_data) ==
    /\ list_data.list_type = item_data.list_type
    /\ list_data.delimiter = item_data.delimiter
    /\ list_data.bullet_char = item_data.bullet_char

\* No reopening: the closed list is left closed.
ReopenNothingMutant(ns, n) == ns

\* The reopening that goes down as well, to the first child of the node.
ReopenWithChildMutant(ns, n) ==
    LET c == first_child(ns, n)
    IN IF c = 0 THEN [ns EXCEPT ![n].open = TRUE]
       ELSE [ns EXCEPT ![n].open = TRUE, ![c].open = TRUE]

RECURSIVE reopen_ast_nodes(_, _)
reopen_ast_nodes(ns, n) ==
    LET ns1 == [ns EXCEPT ![n].open = TRUE]
    IN IF ns[n].parent = 0 THEN ns1 ELSE reopen_ast_nodes(ns1, ns[n].parent)

\* [ok, s, container]
parse_desc_list_details(s, container) ==
    LET lc == last_child(s.nodes, container)
        no == [ok |-> FALSE, s |-> s, container |-> container]
    IN IF lc = 0 THEN no
       ELSE IF Kind(s.nodes, lc) # "Paragraph" THEN no
       ELSE LET ns1 == detach(s.nodes, lc)
                start == s.nodes[lc].sourcepos.start
                fn1 == s.pr.first_nonspace + 1
                prev == last_child(ns1, container)
                reuse == prev # 0 /\ Kind(ns1, prev) = "DescriptionList"
                l == IF reuse
                     THEN [s |-> Log([s EXCEPT !.nodes = reopen_ast_nodes(ns1, prev)],
                                     [ev |-> "reopen", node |-> prev]),
                           node |-> prev]
                     ELSE LET a == Call("add_child", <<[s EXCEPT !.nodes = ns1], container,
                                             [kind |-> "DescriptionList"], fn1>>)
                          IN IF a.node = 0 THEN a
                             ELSE [s |-> [a.s EXCEPT !.nodes[a.node].sourcepos.start = start],
                                   node |-> a.node]
                metadata == [kind |-> "DescriptionItem", marker_offset |-> s.pr.indent,
                             padding |-> 2]
                i0 == Call("add_child", <<l.s, l.node, metadata, fn1>>)
                i1 == IF i0.node = 0 THEN i0.s
                      ELSE [i0.s EXCEPT !.nodes[i0.node].sourcepos.start = start]
                term == Call("add_child", <<i1, i0.node, [kind |-> "DescriptionTerm"], fn1>>)
                details == Call("add_child", <<term.s, i0.node, [kind |-> "DescriptionDetails"], fn1>>)
            IN IF l.node = 0 THEN [ok |-> FALSE, s |-> l.s, container |-> container]
               ELSE IF i0.node = 0 THEN [ok |-> FALSE, s |-> i0.s, container |-> container]
               ELSE IF term.node = 0 \/ details.node = 0
               THEN [ok |-> FALSE, s |-> details.s, container |-> container]
               ELSE [ok |-> TRUE,
                     s |-> [details.s EXCEPT !.nodes = append(@, term.node, lc)],
                     container |-> details.node]

\* The openers of open_new_blocks, each [s, container] from the state after
\* find_first_nonspace.  The new block is logged with the indent and the
\* first_nonspace it was recognised at.
Opened(r, kind, s0, depth) ==
    IF r.node = 0 THEN [s |-> r.s, container |-> 0]
    ELSE [s |-> Log(r.s, [ev |-> "open", kind |-> kind, node |-> r.node,
                          indent |-> s0.pr.indent, fn |-> s0.pr.first_nonspace,
                          offset |-> r.s.pr.offset, column |-> r.s.pr.column,
                          tab |-> r.s.pr.partially_consumed_tab, depth |-> depth]),
          container |-> r.node]

OpenMultilineBlockQuote(s, container, line, matched, depth) ==
    LET fn == s.pr.first_nonspace
        offset == s.pr.offset
        nmbc == [kind |-> "MultilineBlockQuote", fence_length |-> matched,
                 fence_offset |-> fn - offset]
        a == Call("add_child", <<s, container, nmbc, fn + 1>>)
    IN Opened([s |-> Call("advance_offset", <<a.s, line, fn + matched - offset, FALSE>>), node |-> a.node],
              "MultilineBlockQuote", s, depth)

OpenBlockQuote(s, container, line, depth) ==
    LET blockquote_startpos == s.pr.first_nonspace
        s1 == Call("advance_offset", <<s, line, s.pr.first_nonspace + 1 - s.pr.offset, FALSE>>)
        s2 == IF s1.panic # "" THEN s1
              ELSE IF ~InRange(line, s1.pr.offset)
              THEN Fail(s1, "index out of range: line[offset]")
              ELSE IF is_space_or_tab(At(line, s1.pr.offset))
              THEN Call("advance_offset", <<s1, line, 1, TRUE>>)
              ELSE s1
    IN Opened(Call("add_child", <<s2, container, [kind |-> "BlockQuote"], blockquote_startpos + 1>>),
              "BlockQuote", s, depth)

OpenAtxHeading(s, container, line, matched, depth) ==
    LET heading_startpos == s.pr.first_nonspace
        s1 == Call("advance_offset", <<s, line, heading_startpos + matched - s.pr.offset, FALSE>>)
        a == Call("add_child", <<s1, container, [kind |-> "Heading", level |-> 0, setext |-> FALSE],
                       heading_startpos + 1>>)
        level == RunLen(line, heading_startpos, {"#"})
    IN IF a.node = 0 THEN [s |-> a.s, container |-> 0]
       ELSE Opened([s |-> [a.s EXCEPT !.nodes[a.node].value.level = level,
                                      !.nodes[a.node].internal_offset = matched],
                    node |-> a.node],
                   "Heading", s, depth)

\* The fence branch that takes the whole line, its end included, as the fence.
OpenCodeFenceWholeLineMutant(s, container, line, matched, depth) ==
    LET fn == s.pr.first_nonspace
        offset == s.pr.offset
        ncb == [kind |-> "CodeBlock", fenced |-> TRUE, fence_char |-> At(line, fn),
                fence_length |-> matched, fence_offset |-> fn - offset,
                info |-> <<>>, literal |-> <<>>]
        a == Call("add_child", <<s, container, ncb, fn + 1>>)
    IN Opened([s |-> Call("advance_offset", <<a.s, line, Len(line) - offset, FALSE>>), node |-> a.node],
              "CodeBlock", s, depth)

OpenCodeFence(s, container, line, matched, depth) ==
    LET fn == s.pr.first_nonspace
        offset == s.pr.offset
        ncb == [kind |-> "CodeBlock", fenced |-> TRUE, fence_char |-> At(line, fn),
                fence_length |-> matched, fence_offset |-> fn - offset,
                info |-> <<>>, literal |-> <<>>]
        a == Call("add_child", <<s, container, ncb, fn + 1>>)
    IN Opened([s |-> Call("advance_offset", <<a.s, line, fn + matched - offset, FALSE>>), node |-> a.node],
              "CodeBlock", s, depth)

\* The setext branch that makes a Heading of whatever the Paragraph holds.
SetextAnyContentMutant(s, container, line, sc) ==
    LET r == Call("resolve_reference_link_definitions", <<s, container>>)
        s1 == [r.s EXCEPT !.nodes[container].value =
                  [kind |-> "Heading", level |-> IF sc = "=" THEN 1 ELSE 2,
                   setext |-> TRUE]]
    IN [s |-> Call("advance_offset", <<Log(s1, [ev |-> "setext", node |-> container]), line,
                             Len(line) - 1 - s.pr.offset, FALSE>>),
        container |-> container]

\* The setext branch: the Paragraph becomes a Heading in place when content is
\* left after its leading reference definitions.
SetextHeading(s, container, line, sc) ==
    LET r == Call("resolve_reference_link_definitions", <<s, container>>)
    IN IF ~r.has_content THEN [s |-> r.s, container |-> container]
       ELSE LET s1 == [r.s EXCEPT !.nodes[container].value =
                           [kind |-> "Heading", level |-> IF sc = "=" THEN 1 ELSE 2,
                            setext |-> TRUE]]
            IN [s |-> Call("advance_offset", <<Log(s1, [ev |-> "setext", node |-> container]), line,
                                     Len(line) - 1 - s.pr.offset, FALSE>>),
                container |-> container]

OpenThematicBreak(s, container, line, depth) ==
    LET a == Call("add_child", <<s, container, [kind |-> "ThematicBreak"], s.pr.first_nonspace + 1>>)
    IN Opened([s |-> Call("advance_offset", <<a.s, line, Len(line) - 1 - s.pr.offset, FALSE>>),
               node |-> a.node],
              "ThematicBreak", s, depth)

OpenFootnoteDefinition(s, container, line, matched, depth) ==
    LET fn == s.pr.first_nonspace
        c == Slice(line, fn + 2, fn + matched)
        name == Slice(c, 0, RunLen(c, 0, {x \in Range(c) : x # "]"}))
        s1 == Call("advance_offset", <<s, line, fn + matched - s.pr.offset, FALSE>>)
        a == Call("add_child", <<s1, container,
                       [kind |-> "FootnoteDefinition", name |-> name, total_references |-> 0],
                       fn + 1>>)
    IN IF a.node = 0 THEN [s |-> a.s, container |-> 0]
       ELSE Opened([s |-> [a.s EXCEPT !.nodes[a.node].internal_offset = matched],
                    node |-> a.node],
                   "FootnoteDefinition", s, depth)

\* After parse_desc_list_details succeeded: the ":" and one following space.
DescriptionDetailsMarker(s, line) ==
    LET s1 == Call("advance_offset", <<s, line, s.pr.first_nonspace + 1 - s.pr.offset, FALSE>>)
    IN IF s1.panic # "" THEN s1
       ELSE IF ~InRange(line, s1.pr.offset) THEN Fail(s1, "index out of range: line[offset]")
       ELSE IF is_space_or_tab(At(line, s1.pr.offset)) THEN Call("advance_offset", <<s1, line, 1, TRUE>>)
       ELSE s1

\* The loop that consumes the spaces after a list marker, up to column 5 + 1.
RECURSIVE MarkerSpaces(_, _, _)
MarkerSpaces(s, line, save_column) ==
    IF s.panic # "" THEN s
    ELSE IF s.pr.column < save_column THEN Fail(s, "underflow: column - save_column")
    ELSE IF ~(s.pr.column - save_column <= 5) THEN s
    ELSE IF ~InRange(line, s.pr.offset) THEN Fail(s, "index out of range: line[offset]")
    ELSE IF is_space_or_tab(At(line, s.pr.offset))
         THEN MarkerSpaces(Call("advance_offset", <<s, line, 1, TRUE>>), line, save_column)
    ELSE s

OpenListItem(s, container, line, matched, nl0, depth) ==
    LET fn == s.pr.first_nonspace
        s1 == Call("advance_offset", <<s, line, fn + matched - s.pr.offset, FALSE>>)
        save == s1.pr
        s2 == MarkerSpaces(s1, line, save.column)
        i == s2.pr.column - save.column
        rewind == ~(i \in 1..4) \/ is_line_end_char(At(line, s2.pr.offset))
        s3 == IF rewind
              THEN LET back == [s2 EXCEPT !.pr.offset = save.offset,
                                          !.pr.column = save.column,
                                          !.pr.partially_consumed_tab = save.partially_consumed_tab]
                   IN IF i > 0 THEN Call("advance_offset", <<back, line, 1, TRUE>>) ELSE back
              ELSE s2
        nl == [nl0 EXCEPT !.padding = IF rewind THEN matched + 1 ELSE matched + i,
                          !.marker_offset = s.pr.indent]
        new_list == IF Kind(s.nodes, container) = "List"
                    THEN ~lists_match(nl, s.nodes[container].value.nl)
                    ELSE TRUE
        l == IF new_list THEN Call("add_child", <<s3, container, [kind |-> "List", nl |-> nl], fn + 1>>)
             ELSE [s |-> s3, node |-> container]
    IN IF s2.panic # "" THEN [s |-> s2, container |-> 0]
       ELSE IF i \in 1..4 /\ ~InRange(line, s2.pr.offset)
       THEN [s |-> Fail(s2, "index out of range: line[offset]"), container |-> 0]
       ELSE IF l.node = 0 THEN [s |-> l.s, container |-> 0]
       ELSE Opened(Call("add_child", <<l.s, l.node, [kind |-> "Item", nl |-> nl], fn + 1>>),
                   "Item", s, depth)

OpenIndentedCode(s, container, line, depth) ==
    LET s1 == Call("advance_offset", <<s, line, CODE_INDENT, TRUE>>)
        ncb == [kind |-> "CodeBlock", fenced |-> FALSE, fence_char |-> "",
                fence_length |-> 0, fence_offset |-> 0, info |-> <<>>, literal |-> <<>>]
    IN Opened(Call("add_child", <<s1, container, ncb, s1.pr.offset + 1>>), "CodeBlock", s, depth)

\* scanners::html_block_start and html_block_start_7: both need a "<" first.
html_block_start(s) == IF s # <<>> /\ s[1] = "<" /\ Len(s) > 1 /\ s[2] = "!" THEN 4 ELSE 0

html_block_start_7(s) == IF s # <<>> /\ s[1] = "<" /\ Len(s) > 1 /\ s[2] = "/" THEN 7 ELSE 0

OpenHtmlBlock(s, container, matched, depth) ==
    Opened(Call("add_child", <<s, container, [kind |-> "HtmlBlock", block_type |-> matched,
                                    literal |-> <<>>], s.pr.first_nonspace + 1>>),
           "HtmlBlock", s, depth)

\* The branches of one iteration of open_new_blocks from the thematic break on;
\* a failed scan_thematic_break leaves its kill position behind.
\* [s, container, brk]: brk is the break of the final else.
OpenStepRest(s0, container, line, all_matched, maybe_lazy, depth) ==
    LET fn == s0.pr.first_nonspace
        indented == s0.pr.indent >= CODE_INDENT
        kind == Kind(s0.nodes, container)
        go(r) == [s |-> r.s, container |-> r.container, brk |-> FALSE]
        scanned == /\ ~indented
                   /\ ~(kind = "Paragraph" /\ ~all_matched)
                   /\ s0.pr.thematic_break_kill_pos <= fn
        tb == Call("scan_thematic_break", <<s0, line>>)
        s == Log(IF scanned THEN tb.s ELSE s0,
                 [ev |-> "thematic", fn |-> fn, kill |-> s0.pr.thematic_break_kill_pos,
                  asked |-> ~indented /\ ~(kind = "Paragraph" /\ ~all_matched),
                  scanned |-> scanned, found |-> scanned /\ tb.matched > 0])
        fd == footnote_definition(From(line, fn))
        dl == Call("parse_desc_list_details", <<s, container>>)
        lm == parse_list_marker(line, fn, kind = "Paragraph")
    IN IF scanned /\ tb.matched > 0 THEN go(Call("OpenThematicBreak", <<s, container, line, depth>>))
       ELSE IF ~indented /\ s.opt.footnotes /\ depth < MAX_LIST_DEPTH /\ fd > 0
       THEN go(Call("OpenFootnoteDefinition", <<s, container, line, fd, depth>>))
       ELSE IF ~indented /\ s.opt.description_lists /\ At(line, fn) = ":" /\ dl.ok
       THEN [s |-> Call("DescriptionDetailsMarker", <<dl.s, line>>), container |-> dl.container,
             brk |-> FALSE]
       ELSE IF /\ (~indented \/ kind = "List")
               /\ s.pr.indent < 4
               /\ depth < MAX_LIST_DEPTH
               /\ lm.ok
       THEN go(Call("OpenListItem", <<s, container, line, lm.matched, lm.nl, depth>>))
       ELSE IF indented /\ ~maybe_lazy /\ ~s.pr.blank
       THEN go(Call("OpenIndentedCode", <<s, container, line, depth>>))
       ELSE [s |-> s, container |-> container, brk |-> TRUE]

\* The setext scan that ignores the philomena extension.
SetextScanMutant(s, rest) == setext_heading_line(rest)

\* The scan of the setext branch: None under the philomena extension.
SetextScan(s, rest) == IF s.opt.philomena THEN "" ELSE setext_heading_line(rest)

\* One iteration of the loop of open_new_blocks, after find_first_nonspace.
OpenStep(s, container, line, all_matched, maybe_lazy, depth) ==
    LET fn == s.pr.first_nonspace
        indented == s.pr.indent >= CODE_INDENT
        kind == Kind(s.nodes, container)
        rest == From(line, fn)
        go(r) == [s |-> r.s, container |-> r.container, brk |-> FALSE]
        fail(what) == [s |-> Fail(s, what), container |-> container, brk |-> TRUE]
        mbq == IF s.opt.multiline_block_quotes
               THEN open_multiline_block_quote_fence(rest) ELSE 0
        atx == atx_heading_start(rest)
        fence == open_code_fence(rest)
        html == IF html_block_start(rest) > 0 THEN html_block_start(rest)
                ELSE IF kind # "Paragraph" THEN html_block_start_7(rest) ELSE 0
        sc == SetextScan(s, rest)
    IN IF indented THEN Call("OpenStepRest", <<s, container, line, all_matched, maybe_lazy, depth>>)
       ELSE IF fn > Len(line) THEN fail("slice out of range: line[first_nonspace..]")
       ELSE IF mbq > 0 THEN go(Call("OpenMultilineBlockQuote", <<s, container, line, mbq, depth>>))
       ELSE IF ~InRange(line, fn) THEN fail("index out of range: line[first_nonspace]")
       ELSE IF At(line, fn) = ">" /\ ~InRange(line, fn + 1)
       THEN fail("index out of range: line[first_nonspace + 1]")
       ELSE IF At(line, fn) = ">" /\ is_space_or_tab(At(line, fn + 1))
       THEN go(Call("OpenBlockQuote", <<s, container, line, depth>>))
       ELSE IF atx > 0 THEN go(Call("OpenAtxHeading", <<s, container, line, atx, depth>>))
       ELSE IF fence > 0 THEN go(Call("OpenCodeFence", <<s, container, line, fence, depth>>))
       ELSE IF html > 0 THEN go(Call("OpenHtmlBlock", <<s, container, html, depth>>))
       ELSE IF kind = "Paragraph" /\ sc # "" THEN go(Call("SetextHeading", <<s, container, line, sc>>))
       ELSE Call("OpenStepRest", <<s, container, line, all_matched, maybe_lazy, depth>>)

\* One pass of the loop of open_new_blocks on [s, container, maybe_lazy, depth].
\* The log keeps the offset before and after the pass, the number of nodes it
\* has created and whether it has left the loop.
OpenNewBlocksStep(r, line, all_matched) ==
    LET depth == r.depth + 1
        s1 == Call("find_first_nonspace", <<r.s, line>>)
        step == Call("OpenStep", <<s1, r.container, line, all_matched, r.maybe_lazy, depth>>)
    IN IF r.s.panic # "" \/ Kind(r.s.nodes, r.container) \in {"CodeBlock", "HtmlBlock"}
       THEN [r EXCEPT !.done = TRUE]
       ELSE IF step.s.panic # "" THEN [r EXCEPT !.s = step.s, !.done = TRUE]
       ELSE LET left == step.brk \/ accepts_lines(Kind(step.s.nodes, step.container))
            IN [s |-> Log(step.s, [ev |-> "pass", offset0 |-> r.s.pr.offset,
                                   offset |-> step.s.pr.offset,
                                   created |-> Len(step.s.nodes) - Len(r.s.nodes),
                                   left |-> left, len |-> Len(line),
                                   column0 |-> r.s.pr.column, fn |-> s1.pr.first_nonspace,
                                   fnc |-> s1.pr.first_nonspace_column,
                                   blank |-> s1.pr.blank]),
                container |-> step.container, maybe_lazy |-> FALSE,
                depth |-> depth, done |-> left]

RECURSIVE OpenNewBlocksLoop(_, _, _, _)
OpenNewBlocksLoop(r, line, all_matched, n) ==
    IF n <= 1 THEN OpenNewBlocksStep(r, line, all_matched)
    ELSE LET half == OpenNewBlocksLoop(r, line, all_matched, n \div 2)
         IN IF half.done THEN half
            ELSE OpenNewBlocksLoop(half, line, all_matched, n - n \div 2)

\* The loop of open_new_blocks: [s, container].  depth counts the passes of
\* this call.  Every pass but the last opens a block and takes at least one
\* byte of the line, or ends in an HtmlBlock.
OpenLoop(s, container, line, all_matched, maybe_lazy, depth0) ==
    LET r == Ended(OpenNewBlocksLoop([s |-> s, container |-> container, maybe_lazy |-> maybe_lazy,
                                depth |-> depth0, done |-> FALSE],
                               line, all_matched, Len(line) + 2))
    IN [s |-> r.s, container |-> r.container]

open_new_blocks(s, container, line, all_matched) ==
    Call("OpenLoop", <<s, container, line, all_matched, Kind(s.nodes, s.pr.current) = "Paragraph", 0>>)

(***************************************************************************)
(* Text of the line, and process_line.                                     *)
(***************************************************************************)
\* strings::chop_trailing_hashtags
chop_trailing_hashtags(line) ==
    LET l == rtrim(line)
        orig_n == Len(l) - 1
        others == {i \in 0..orig_n : At(l, i) # "#"}
        n == CHOOSE i \in others : \A j \in others : j <= i
    IN IF others = {} THEN l
       ELSE IF n # orig_n /\ is_space_or_tab(At(l, n)) THEN rtrim(Slice(l, 0, n))
       ELSE l

\* The last_line_blank a container gets from a line.
LastLineBlank(s, container) ==
    LET v == s.nodes[container].value
    IN s.pr.blank /\
       CASE v.kind \in {"BlockQuote", "Heading", "ThematicBreak"} -> FALSE
         [] v.kind = "CodeBlock" -> ~v.fenced
         [] v.kind = "Item" -> \/ first_child(s.nodes, container) # 0
                               \/ s.nodes[container].sourcepos.start.line # s.pr.line_number
         [] v.kind = "MultilineBlockQuote" -> FALSE
         [] OTHER -> TRUE

\* One pass of the loop that finalizes current and its ancestors up to the
\* last matched container.
FinalizeUpToStep(r, last_matched_container) ==
    LET s == r.s
        f == Call("finalize", <<s, s.pr.current>>)
    IN IF s.panic # "" \/ s.pr.current = last_matched_container THEN [r EXCEPT !.done = TRUE]
       ELSE IF f.s.panic # "" THEN [s |-> f.s, done |-> TRUE]
       ELSE IF f.parent = 0
       THEN [s |-> Fail(f.s, "unwrap of None: finalize(current)"), done |-> TRUE]
       ELSE [s |-> [f.s EXCEPT !.pr.current = f.parent], done |-> FALSE]

RECURSIVE FinalizeUpToLoop(_, _, _)
FinalizeUpToLoop(r, last_matched_container, n) ==
    IF n <= 1 THEN FinalizeUpToStep(r, last_matched_container)
    ELSE LET half == FinalizeUpToLoop(r, last_matched_container, n \div 2)
         IN IF half.done THEN half
            ELSE FinalizeUpToLoop(half, last_matched_container, n - n \div 2)

\* Every pass but the last goes one node up the tree.
FinalizeUpTo(s, last_matched_container) ==
    Ended(FinalizeUpToLoop([s |-> s, done |-> FALSE], last_matched_container, Len(s.nodes) + 1)).s

\* The last arm of add_text_to_container: [s, container].
AddTextOtherwise(s, container, line) ==
    LET kind == Kind(s.nodes, container)
        fn == s.pr.first_nonspace
        setext == kind = "Heading" /\ s.nodes[container].value.setext
        chopped == IF kind = "Heading" /\ ~setext THEN chop_trailing_hashtags(line) ELSE line
        p == Call("add_child", <<s, container, [kind |-> "Paragraph"], fn + 1>>)
    IN IF s.pr.blank THEN [s |-> s, container |-> container]
       ELSE IF fn < s.pr.offset
       THEN [s |-> Fail(s, "underflow: first_nonspace - offset"), container |-> container]
       ELSE IF accepts_lines(kind)
       THEN [s |-> IF fn <= Len(chopped)
                   THEN LET a == Call("advance_offset", <<s, chopped, fn - s.pr.offset, FALSE>>)
                        IN Call("add_line", <<a, container, chopped>>)
                   ELSE s,
             container |-> container]
       ELSE IF p.node = 0 THEN [s |-> p.s, container |-> container]
       ELSE [s |-> Call("add_line", <<Call("advance_offset", <<p.s, line, fn - s.pr.offset, FALSE>>), p.node, line>>),
             container |-> p.node]

\* The HtmlBlock arm of add_text_to_container: [s, container].  The end
\* condition is that of scanners::html_block_end_4, a ">" somewhere in the
\* rest of the line; the blocks of the other types do not end on a line.
AddTextHtmlBlock(s, container, line) ==
    LET a == Call("add_line", <<s, container, line>>)
        fn == a.pr.first_nonspace
        f == Call("finalize", <<a, container>>)
        matches_end_condition ==
            /\ a.nodes[container].value.block_type = 4
            /\ \E i \in (fn + 1)..Len(line) : line[i] = ">"
    IN IF a.panic # "" THEN [s |-> a, container |-> container]
       ELSE IF fn > Len(line)
       THEN [s |-> Fail(a, "slice out of range: line[first_nonspace..]"),
             container |-> container]
       ELSE IF ~matches_end_condition
       THEN [s |-> a, container |-> container]
       ELSE IF f.s.panic # "" THEN [s |-> f.s, container |-> container]
       ELSE IF f.parent = 0
       THEN [s |-> Fail(f.s, "unwrap of None: finalize(container)"), container |-> container]
       ELSE [s |-> f.s, container |-> f.parent]

\* The condition that asks only for an open Paragraph below the container.
LazyContinuationMutant(s, container, last_matched_container) ==
    /\ s.pr.current # last_matched_container
    /\ container = last_matched_container
    /\ ~s.pr.blank
    /\ Kind(s.nodes, s.pr.current) = "Paragraph"

\* The condition of add_text_to_container under which the line goes to the
\* open Paragraph as it is.
LazyContinuation(s, container, last_matched_container) ==
    /\ s.pr.current # last_matched_container
    /\ container = last_matched_container
    /\ ~s.pr.blank
    /\ Kind(s.nodes, container) \notin {"BlockQuote", "Document"}
    /\ Kind(s.nodes, s.pr.current) = "Paragraph"

add_text_to_container(s, container, last_matched_container, line) ==
    LET f == Call("find_first_nonspace", <<s, line>>)
        s1 == Log(f, [ev |-> "text", offset0 |-> s.pr.offset, column0 |-> s.pr.column,
                      fn |-> f.pr.first_nonspace, fnc |-> f.pr.first_nonspace_column,
                      blank |-> f.pr.blank])
        lc == last_child(s1.nodes, container)
        ns1 == IF s1.pr.blank /\ lc # 0
               THEN [s1.nodes EXCEPT ![lc].last_line_blank = TRUE]
               ELSE s1.nodes
        llb == LastLineBlank([s1 EXCEPT !.nodes = ns1], container)
        ns2 == [ns1 EXCEPT ![container].last_line_blank = llb]
        up == Ancestors(ns2, container)
        ns3 == AsSeq([n \in DOMAIN ns2 |->
                   IF n \in up THEN [ns2[n] EXCEPT !.last_line_blank = FALSE] ELSE ns2[n]])
        s2 == [s1 EXCEPT !.nodes = ns3]
        lazy == LazyContinuation(s2, container, last_matched_container)
        s3 == Call("FinalizeUpTo", <<s2, last_matched_container>>)
        kind == Kind(s3.nodes, container)
        r == IF kind = "CodeBlock"
             THEN [s |-> Call("add_line", <<s3, container, line>>), container |-> container]
             ELSE IF kind = "HtmlBlock"
             THEN Call("AddTextHtmlBlock", <<s3, container, line>>)
             ELSE Call("AddTextOtherwise", <<s3, container, line>>)
    IN IF s1.panic # "" THEN s1
       ELSE IF lazy
       THEN Call("add_line", <<Log(s2, [ev |-> "lazy", node |-> s2.pr.current,
                              container |-> container]),
                     s2.pr.current, line>>)
       ELSE IF s3.panic # "" THEN s3
       ELSE IF r.s.panic # "" THEN r.s
       ELSE [r.s EXCEPT !.pr.current = r.container]

\* The bytes the model names by their value: NUL, the byte order mark
\* U+FEFF and the replacement character U+FFFD in UTF-8.
NUL == "0x00"

BOM == <<"0xEF", "0xBB", "0xBF">>

\* The NUL byte left as it is.
REPLACEMENT_CHARACTER_Mutant == <<NUL>>

REPLACEMENT_CHARACTER == <<"0xEF", "0xBF", "0xBD">>

\* The line with no line end of its own, as it would run into the scans.
WithLineEndMutant(text) == text

\* The head of process_line: a line that does not end in a line end gets "\n".
WithLineEnd(text) ==
    IF text = <<>> \/ ~is_line_end_char(Last(text)) THEN text \o <<"\n">> ELSE text

\* The length of the line with its line end counted in.
CurlineEndColMutant(line) == Len(line)

\* curline_end_col: the length of the line with no LF and no CR at its end.
CurlineEndCol(line) ==
    LET n == Len(line)
        e1 == IF n > 0 /\ At(line, n - 1) = "\n" THEN n - 1 ELSE n
    IN IF e1 > 0 /\ At(line, e1 - 1) = "\r" THEN e1 - 1 ELSE e1

\* process_line on the line feed or finish hands over: the state after the
\* call.  The log starts anew with the line; it keeps what the line was, the
\* container check_open_blocks returned with the offset it left, and the
\* current before the line.  s.handed gets the line as it is worked on.
process_line(s0, text) ==
    LET line == WithLineEnd(text)
        n == Len(line)
        e2 == CurlineEndCol(line)
        s == [s0 EXCEPT !.pr.curline_len = n,
                        !.pr.curline_end_col = e2,
                        !.pr.offset = IF s0.pr.line_number = 0 /\ n >= 3
                                          /\ SubSeq(line, 1, 3) = BOM
                                       THEN 3 ELSE 0,
                        !.pr.column = 0,
                        !.pr.first_nonspace = 0,
                        !.pr.first_nonspace_column = 0,
                        !.pr.indent = 0,
                        !.pr.thematic_break_kill_pos = 0,
                        !.pr.blank = FALSE,
                        !.pr.partially_consumed_tab = FALSE,
                        !.pr.line_number = @ + 1,
                        !.handed = Append(@, line),
                        !.ev = <<>>]
        c == Call("check_open_blocks", <<s, line>>)
        current == c.s.pr.current
        o == Call("open_new_blocks", <<c.s, c.container, line, c.all_matched>>)
        t == IF o.s.panic # "" THEN o.s
             ELSE IF current = o.s.pr.current
             THEN Call("add_text_to_container", <<o.s, o.container, c.container, line>>)
             ELSE o.s
        done == IF c.s.panic # "" THEN c.s
                ELSE IF c.container = 0 THEN c.s
                ELSE t
        head == [ev |-> "line", line |-> line, before |-> s0.pr.current,
                 last_matched |-> c.container, all_matched |-> c.all_matched,
                 offset |-> c.s.pr.offset,
                 container |-> IF c.container = 0 \/ c.s.panic # "" THEN 0 ELSE o.container]
    IN IF s0.panic # "" THEN s0
       ELSE [done EXCEPT !.pr.last_line_length = e2,
                         !.pr.curline_len = 0,
                         !.pr.curline_end_col = 0,
                         !.ev = <<head>> \o @]

(***************************************************************************)
(* The end of the document: finalize_document, the inline pass as far as   *)
(* footnote references go, and process_footnotes.                          *)
(***************************************************************************)
\* make_inline of inlines.rs: an inline node is born closed; it spans the
\* columns start..end of its line.
MakeInline(value, l, start, end) ==
    [AstNew(value, l, start) EXCEPT !.open = FALSE, !.sourcepos.end = LineColumn(l, end)]

\* An inline node to be: its value, the nodes it wraps, and the bytes
\* pos..pos+len of the content it stands for.
Tok(value, kids, pos, len) == [value |-> value, kids |-> kids, pos |-> pos, len |-> len]

TextTok(content, pos, len) ==
    Tok([kind |-> "Text", literal |-> Slice(content, pos, pos + len)], <<>>, pos, len)

\* One pass of parse_inline over a content buffer on [i, text, out, br]:
\* "[^name]" is a FootnoteReference when footnotes are enabled; "[" is a Text
\* of its own and pushes a bracket; "]" closes the last bracket as a Link when
\* "(url)" follows or when the bracketed label is in the reference map (the
\* nodes after the bracket become the children of the Link, and the brackets
\* before it are disabled), and is a literal "]" otherwise; a run of "*" or
\* "_" is a Text of its own; every other run of bytes is one Text.
InlineTokensStep(r, content, footnotes, refs) ==
    LET i == r.i
        flush == IF r.text = <<>> THEN <<>>
                 ELSE <<TextTok(content, i - Len(r.text), Len(r.text))>>
        out == r.out \o flush
        n == RunLen(content, i + 2, {c \in Range(content) : c \notin {"[", "]"}})
        c == At(content, i)
        b == Last(r.br)
        u == RunLen(content, i + 2,
                    {x \in Range(content) : x \notin {"(", ")", " ", "\t", "\n", "\r"}})
        inline == /\ i + 1 < Len(content) /\ At(content, i + 1) = "("
                  /\ i + 2 + u < Len(content) /\ At(content, i + 2 + u) = ")"
        label == Call("normalize_label", <<Slice(content, b.pos + 1, i), FALSE>>)
        shortcut == label # <<>> /\ label \in DOMAIN refs
        close == IF inline THEN i + 3 + u ELSE i + 1
        link == Tok([kind |-> "Link",
                     url |-> IF inline THEN Slice(content, i + 2, i + 2 + u) ELSE refs[label].url,
                     title |-> IF inline THEN <<>> ELSE refs[label].title],
                    SubSeq(out, b.ix + 1, Len(out)), b.pos, close - b.pos)
        k == RunLen(content, i, {c})
    IN IF i >= Len(content) THEN [r EXCEPT !.out = out, !.text = <<>>, !.done = TRUE]
       ELSE IF /\ footnotes
               /\ Len(content) >= i + 4 /\ c = "[" /\ At(content, i + 1) = "^"
               /\ n >= 1 /\ i + 2 + n < Len(content) /\ At(content, i + 2 + n) = "]"
       THEN [r EXCEPT !.i = i + 3 + n, !.text = <<>>,
                      !.out = out \o <<Tok([kind |-> "FootnoteReference",
                                            name |-> Slice(content, i + 2, i + 2 + n),
                                            ref_num |-> 0, ix |-> 0], <<>>, i, n + 3)>>]
       ELSE IF c = "["
       THEN [r EXCEPT !.i = i + 1, !.text = <<>>,
                      !.out = Append(out, TextTok(content, i, 1)),
                      !.br = Append(@, [ix |-> Len(out) + 1, pos |-> i])]
       ELSE IF c = "]" /\ r.br # <<>> /\ (inline \/ shortcut)
       THEN [r EXCEPT !.i = close, !.text = <<>>,
                      !.out = Append(SubSeq(out, 1, b.ix - 1), link),
                      !.br = <<>>]
       ELSE IF c = "]"
       THEN [r EXCEPT !.i = i + 1, !.text = <<>>,
                      !.out = Append(out, TextTok(content, i, 1)),
                      !.br = IF @ = <<>> THEN @ ELSE SubSeq(@, 1, Len(@) - 1)]
       ELSE IF c \in {"*", "_"}
       THEN [r EXCEPT !.i = i + k, !.text = <<>>,
                      !.out = Append(out, TextTok(content, i, k))]
       ELSE [r EXCEPT !.i = i + 1, !.text = Append(@, c)]

RECURSIVE InlineTokensLoop(_, _, _, _, _)
InlineTokensLoop(r, content, footnotes, refs, n) ==
    IF n <= 1 THEN InlineTokensStep(r, content, footnotes, refs)
    ELSE LET half == InlineTokensLoop(r, content, footnotes, refs, n \div 2)
         IN IF half.done THEN half
            ELSE InlineTokensLoop(half, content, footnotes, refs, n - n \div 2)

InlineTokens(content, footnotes, refs) ==
    Ended(InlineTokensLoop([i |-> 0, text |-> <<>>, out |-> <<>>, br |-> <<>>, done |-> FALSE],
                     content, footnotes, refs, Len(content) + 1)).out

\* The nodes of the tokens toks, in order, as last children of node; base is
\* the column before the first byte of the content.
RECURSIVE AppendInlines(_, _, _, _, _)
AppendInlines(ns, node, toks, l, base) ==
    IF toks = <<>> THEN ns
    ELSE LET t == Head(toks)
             id == Len(ns) + 1
             child == MakeInline(t.value, l, base + t.pos + 1, base + t.pos + t.len)
             linked == append(Append(ns, child), node, id)
         IN AppendInlines(AppendInlines(linked, id, t.kids, l, base), node, Tail(toks), l, base)

\* parse_inlines on the right-trimmed content of one node
parse_inlines(s, node) ==
    LET ast == s.nodes[node]
    IN [s EXCEPT !.nodes = AppendInlines(@, node,
                                         InlineTokens(rtrim(ast.content), s.opt.footnotes, s.refmap),
                                         ast.sourcepos.start.line,
                                         ast.sourcepos.start.column - 1 + ast.internal_offset)]

\* The loop of process_inlines over the nodes todo[lo..hi]: the first half of
\* them, then the rest.
RECURSIVE ProcessInlinesSeq(_, _, _, _)
ProcessInlinesSeq(s, todo, lo, hi) ==
    IF lo > hi THEN s
    ELSE IF lo = hi
    THEN IF contains_inlines(Kind(s.nodes, todo[lo])) THEN Call("parse_inlines", <<s, todo[lo]>>) ELSE s
    ELSE LET mid == (lo + hi) \div 2
             half == ProcessInlinesSeq(s, todo, lo, mid)
         IN IF half.panic # "" THEN half ELSE ProcessInlinesSeq(half, todo, mid + 1, hi)

process_inlines(s) ==
    LET todo == Tail(Preorder(s.nodes, ROOT))
    IN ProcessInlinesSeq(s, todo, 1, Len(todo))

\* The FootnoteDefinition nodes the two walks that stop at a definition see:
\* the definitions that are not inside another one, in document order.
RECURSIVE TopDefinitions(_, _)
TopDefinitions(ns, node) ==
    IF Kind(ns, node) = "FootnoteDefinition" THEN <<node>>
    ELSE Flatten([i \in DOMAIN ns[node].children |-> TopDefinitions(ns, ns[node].children[i])])

\* find_footnote_definitions: map.insert, so the last definition of a label stays.
find_footnote_definitions(ns, node) ==
    LET tops == TopDefinitions(ns, node)
        key(i) == Call("normalize_label", <<ns[tops[i]].value.name, FALSE>>)
        keys == {key(i) : i \in DOMAIN tops}
    IN [k \in keys |->
           LET i == CHOOSE j \in DOMAIN tops : key(j) = k /\ \A m \in DOMAIN tops : key(m) = k => m <= j
           IN [ix |-> 0, node |-> tops[i],
               name |-> Call("normalize_label", <<ns[tops[i]].value.name, TRUE>>),
               total_references |-> 0]]

\* find_footnote_references over the FootnoteReference nodes in preorder:
\* [ns, map, ix].  An ix of 0 in the map stands for None.
RECURSIVE FindReferences(_, _, _, _)
FindReferences(ns, map, ixp, refs) ==
    IF refs = <<>> THEN [ns |-> ns, map |-> map, ix |-> ixp]
    ELSE LET r == Head(refs)
             nfr == ns[r].value
             normalized == Call("normalize_label", <<nfr.name, FALSE>>)
         IN IF normalized \in DOMAIN map
            THEN LET footnote == map[normalized]
                     fresh == footnote.ix = 0
                     ix == IF fresh THEN ixp + 1 ELSE footnote.ix
                     total == footnote.total_references + 1
                 IN FindReferences(
                        [ns EXCEPT ![r].value = [kind |-> "FootnoteReference",
                                                 name |-> Call("normalize_label", <<footnote.name, TRUE>>),
                                                 ref_num |-> total, ix |-> ix]],
                        [map EXCEPT ![normalized].ix = ix,
                                    ![normalized].total_references = total],
                        IF fresh THEN ixp + 1 ELSE ixp,
                        Tail(refs))
            ELSE FindReferences(
                     [ns EXCEPT ![r].value = [kind |-> "Text",
                                              literal |-> <<"[", "^">> \o nfr.name \o <<"]">>]],
                     map, ixp, Tail(refs))

\* The walk that leaves a reference without a definition as it is.
FindMatchedOnlyMutant(ns, map) ==
    FindReferences(ns, map, 0,
                   SelectSeq(Preorder(ns, ROOT),
                             LAMBDA n : /\ Kind(ns, n) = "FootnoteReference"
                                        /\ normalize_label(ns[n].value.name, FALSE) \in DOMAIN map))

find_footnote_references(ns, map) ==
    FindReferences(ns, map, 0,
                   SelectSeq(Preorder(ns, ROOT), LAMBDA n : Kind(ns, n) = "FootnoteReference"))

RECURSIVE DetachAll(_, _)
DetachAll(ns, todo) == IF todo = <<>> THEN ns ELSE DetachAll(detach(ns, Head(todo)), Tail(todo))

cleanup_footnote_definitions(ns, node) == DetachAll(ns, TopDefinitions(ns, node))

\* The vector left as into_values gave it.
SortUnstableByIxMutant(v, map, ties) == v

\* v.sort_unstable_by(|a, b| a.ix.cmp(&b.ix)): ascending ix, None (0) first.
\* An unstable sort may leave entries of equal ix in any order: ties is the
\* order this run leaves them in.
SortUnstableByIx(v, map, ties) ==
    LET Rank(k) == CHOOSE i \in DOMAIN ties : ties[i] = k
        Before(a, b) == \/ map[a].ix < map[b].ix
                        \/ map[a].ix = map[b].ix /\ Rank(a) < Rank(b)
        Pos(k) == 1 + Cardinality({a \in Range(v) : Before(a, k)})
    IN AsSeq([i \in DOMAIN v |-> CHOOSE k \in Range(v) : Pos(k) = i])

\* The loop that re-appends the definitions of v that have an ix.
RECURSIVE AppendByIx(_, _, _)
AppendByIx(ns, map, v) ==
    IF v = <<>> THEN ns
    ELSE LET f == map[Head(v)]
             ns1 == [ns EXCEPT ![f.node].value.name = f.name,
                               ![f.node].value.total_references = f.total_references]
         IN IF f.ix # 0 THEN AppendByIx(append(ns1, ROOT, f.node), map, Tail(v))
            ELSE AppendByIx(ns, map, Tail(v))

\* map.into_values() gives the entries in the order the hasher of this run
\* has them in: hash is that order on all the keys there can be.  The log
\* keeps the tree as the inline pass has left it.
process_footnotes(s, hash, ties) ==
    LET map == Call("find_footnote_definitions", <<s.nodes, ROOT>>)
        r == Call("find_footnote_references", <<s.nodes, map>>)
        ns1 == IF DOMAIN map # {} THEN Call("cleanup_footnote_definitions", <<r.ns, ROOT>>) ELSE r.ns
        into_values == SelectSeq(hash, LAMBDA k : k \in DOMAIN r.map)
        v == SortUnstableByIx(into_values, r.map, ties)
    IN [Log(s, [ev |-> "process_footnotes", nodes |-> s.nodes])
           EXCEPT !.nodes = IF r.ix > 0 THEN AppendByIx(ns1, r.map, v) ELSE ns1]

finalize_document(s, hash, ties) ==
    LET s1 == Call("FinalizeUpTo", <<s, ROOT>>)
        f == Call("finalize", <<s1, ROOT>>)
        s2 == Call("process_inlines", <<f.s>>)
    IN IF s1.panic # "" THEN s1
       ELSE IF f.s.panic # "" THEN f.s
       ELSE IF s.opt.footnotes THEN Call("process_footnotes", <<s2, hash, ties>>)
       ELSE s2

\* scanners::tasklist: spaces, "[", a symbol that is no line end, "]", then a
\* space or the end of the text: [ok, end, symbol].
tasklist(text) ==
    LET k == RunLen(text, 0, {" ", "\t", "\n", "\r"})
        ok == /\ Len(text) >= k + 3
              /\ At(text, k) = "[" /\ At(text, k + 1) \notin {"\n", "\r"} /\ At(text, k + 2) = "]"
              /\ (Len(text) = k + 3 \/ isspace(At(text, k + 3)))
    IN IF ok THEN [ok |-> TRUE, end |-> Min(k + 4, Len(text)), symbol |-> At(text, k + 1)]
       ELSE [ok |-> FALSE, end |-> 0, symbol |-> ""]

\* The marker is taken off a Text that has a symbol which is not a task marker.
TasklistAnySymbolMutant(s, node) ==
    LET ns == s.nodes
        m == tasklist(ns[node].value.literal)
        parent == ns[node].parent
        gp == ns[parent].parent
    IN IF ~m.ok THEN s
       ELSE IF previous_sibling(ns, node) # 0 \/ previous_sibling(ns, parent) # 0 THEN s
       ELSE IF Kind(ns, parent) # "Paragraph" THEN s
       ELSE IF gp = 0 THEN Fail(s, "process_tasklist: parent.parent().unwrap()")
       ELSE IF Kind(ns, gp) # "Item" THEN s
       ELSE [s EXCEPT !.nodes[node].value.literal = From(@, m.end),
                      !.nodes[node].sourcepos.start.column = @ + m.end,
                      !.nodes[parent].sourcepos.start.column = @ + m.end,
                      !.nodes[gp].value = [kind |-> "TaskItem",
                                           symbol |-> IF m.symbol = " " THEN <<>> ELSE <<m.symbol>>]]

\* process_tasklist on the Text node: the symbol of a TaskItem is <<>> for
\* None and <<c>> for Some(c).
process_tasklist(s, node) ==
    LET ns == s.nodes
        m == tasklist(ns[node].value.literal)
        parent == ns[node].parent
        gp == ns[parent].parent
    IN IF ~m.ok THEN s
       ELSE IF ~s.opt.relaxed_tasklist_matching /\ m.symbol \notin {" ", "x", "X"} THEN s
       ELSE IF previous_sibling(ns, node) # 0 \/ previous_sibling(ns, parent) # 0 THEN s
       ELSE IF Kind(ns, parent) # "Paragraph" THEN s
       ELSE IF gp = 0 THEN Fail(s, "process_tasklist: parent.parent().unwrap()")
       ELSE IF Kind(ns, gp) # "Item" THEN s
       ELSE [s EXCEPT !.nodes[node].value.literal = From(@, m.end),
                      !.nodes[node].sourcepos.start.column = @ + m.end,
                      !.nodes[parent].sourcepos.start.column = @ + m.end,
                      !.nodes[gp].value = [kind |-> "TaskItem",
                                           symbol |-> IF m.symbol = " " THEN <<>> ELSE <<m.symbol>>]]

postprocess_text_node(s, node) ==
    IF s.opt.tasklist THEN Call("process_tasklist", <<s, node>>) ELSE s

\* The inner loop of postprocess_text_nodes on the Text n: a Text after it is
\* joined to it and detached, until there is none, and then the Text is
\* post-processed.
RECURSIVE JoinText(_, _)
JoinText(s, n) ==
    LET ns == next_sibling(s.nodes, n)
    IN IF ns # 0 /\ Kind(s.nodes, ns) = "Text"
       THEN JoinText([s EXCEPT !.nodes =
                         detach([@ EXCEPT ![n].value.literal = @ \o s.nodes[ns].value.literal,
                                          ![n].sourcepos.end.column = s.nodes[ns].sourcepos.end.column],
                                ns)], n)
       ELSE Call("postprocess_text_node", <<s, n>>)

\* The loop over the children of one node, from the child n on: [s, children];
\* a Link or an Image is not pushed.
RECURSIVE PostprocessChildren(_, _, _)
PostprocessChildren(s, n, children) ==
    IF n = 0 THEN [s |-> s, children |-> children]
    ELSE LET kind == Kind(s.nodes, n)
             s1 == IF kind = "Text" THEN JoinText(s, n) ELSE s
         IN PostprocessChildren(s1, next_sibling(s1.nodes, n),
                                IF kind \in {"Link", "Image"} THEN children
                                ELSE Append(children, n))

\* One pass of the loop of postprocess_text_nodes on [s, stack].
PostprocessStep(r) ==
    IF r.stack = <<>> THEN [r EXCEPT !.done = TRUE]
    ELSE LET node == Last(r.stack)
             c == PostprocessChildren(r.s, first_child(r.s.nodes, node), <<>>)
         IN [s |-> c.s,
             stack |-> SubSeq(r.stack, 1, Len(r.stack) - 1)
                         \o [i \in 1..Len(c.children) |-> c.children[Len(c.children) + 1 - i]],
             done |-> FALSE]

RECURSIVE PostprocessLoop(_, _)
PostprocessLoop(r, n) ==
    IF n <= 1 THEN PostprocessStep(r)
    ELSE LET half == PostprocessLoop(r, n \div 2)
         IN IF half.done THEN half ELSE PostprocessLoop(half, n - n \div 2)

postprocess_text_nodes(s, node) ==
    Ended(PostprocessLoop([s |-> s, stack |-> <<node>>, done |-> FALSE], Len(s.nodes) + 1)).s

\* finish: what is left in the line buffer is the last line.  The log keeps
\* the tree as finalize_document leaves it.
finish(s, remaining, hash, ties) ==
    LET s0 == [s EXCEPT !.ev = <<>>]
        s1 == IF remaining # <<>> THEN Call("process_line", <<s0, remaining>>) ELSE s0
        s2 == Call("finalize_document", <<s1, hash, ties>>)
    IN IF s2.panic # "" THEN s2
       ELSE Call("postprocess_text_nodes",
                 <<Log(s2, [ev |-> "finalize_document", nodes |-> s2.nodes]), ROOT>>)

(***************************************************************************)
(* feed: the front matter, the size of the input, and the loop that cuts   *)
(* the fragment into lines.                                                *)
(***************************************************************************)
StartsWith(s, prefix) == Len(s) >= Len(prefix) /\ SubSeq(s, 1, Len(prefix)) = prefix

\* strings::split_off_front_matter: [ok, front_matter, rest].  The text
\* begins with the delimiter on a line of its own and a later line is the
\* delimiter again; one more line end after it goes with the front matter.
split_off_front_matter(s, delimiter) ==
    LET none == [ok |-> FALSE, front_matter |-> <<>>, rest |-> s]
        d == Len(delimiter)
        closing == <<"\n">> \o delimiter \o <<"\n">>
        found == {i \in (d + 1)..Len(s) : StartsWith(From(s, i), closing)}
    IN IF ~StartsWith(s, delimiter \o <<"\n">>) \/ found = {} THEN none
       ELSE LET e == (CHOOSE i \in found : \A j \in found : i <= j) + d + 2
                e2 == IF e < Len(s) /\ At(s, e) = "\n" THEN e + 1 ELSE e
            IN [ok |-> TRUE, front_matter |-> Slice(s, 0, e2), rest |-> From(s, e2)]

\* The head of feed: [s, rest].  On the first bytes fed, with a delimiter
\* configured, the front matter becomes a closed child of the Document.
FeedFrontMatter(s, str) ==
    LET fm == split_off_front_matter(str, s.opt.front_matter_delimiter)
        c == Call("add_child", <<s, ROOT, [kind |-> "FrontMatter", literal |-> fm.front_matter], 1>>)
        f == Call("finalize", <<c.s, c.node>>)
    IN IF s.pr.total_size # 0 \/ s.opt.front_matter_delimiter = <<>> \/ ~fm.ok
       THEN [s |-> s, rest |-> str]
       ELSE IF c.node = 0 THEN [s |-> c.s, rest |-> fm.rest]
       ELSE IF f.s.panic # "" THEN [s |-> f.s, rest |-> fm.rest]
       ELSE IF f.parent = 0
       THEN [s |-> Fail(f.s, "unwrap of None: finalize(node) in feed"), rest |-> fm.rest]
       ELSE [s |-> f.s, rest |-> fm.rest]

\* The addition that wraps around.
AddSizeMutant(total_size, len) == (total_size + len) % (USIZE_MAX + 1)

\* total_size after len more bytes: the addition saturates.
AddSize(total_size, len) ==
    IF len > USIZE_MAX - total_size THEN USIZE_MAX ELSE total_size + len

\* The step over one byte only: the LF after a CR is left where it is.
SkipLineEndMutant(str, eol) ==
    IF At(str, eol) \in {"\r", "\n"} THEN eol + 1 ELSE eol

\* The step that stays on a LF.
SkipLineFeedStuckMutant(str, eol) == IF At(str, eol) = "\r" THEN eol + 1 ELSE eol

\* The step over the line end at eol: a CR, then a LF, each if it is there.
SkipLineEnd(str, eol) ==
    LET buffer == IF At(str, eol) = "\r" THEN eol + 1 ELSE eol
    IN IF buffer < Len(str) /\ At(str, buffer) = "\n" THEN buffer + 1 ELSE buffer

\* One pass of the outer loop of feed on [s, linebuf, buffer].
FeedStep(r, str, eof) ==
    LET end == Len(str)
        buffer == r.buffer
        eol == buffer + RunLen(str, buffer,
                               {c \in Range(str) : ~is_line_end_char(c) /\ c # NUL})
        process == \/ eol < end /\ is_line_end_char(At(str, eol))
                   \/ eol >= end /\ eof
        piece == Slice(str, buffer, eol)
        s1 == IF process THEN Call("process_line", <<r.s, r.linebuf \o piece>>) ELSE r.s
        lb == IF process THEN <<>>
              ELSE IF eol < end /\ At(str, eol) = NUL
              THEN r.linebuf \o piece \o REPLACEMENT_CHARACTER
              ELSE r.linebuf \o piece
        nul == eol < end /\ At(str, eol) = NUL
        cr == eol < end /\ At(str, eol) = "\r"
        b2 == IF eol >= end THEN eol
              ELSE IF nul THEN eol + 1 ELSE SkipLineEnd(str, eol)
    IN IF r.s.panic # "" \/ buffer >= end THEN [r EXCEPT !.done = TRUE]
       ELSE [s |-> IF cr /\ eol + 1 = end
                   THEN [s1 EXCEPT !.pr.last_buffer_ended_with_cr = TRUE] ELSE s1,
             linebuf |-> lb, buffer |-> b2, done |-> FALSE]

RECURSIVE FeedLoop(_, _, _, _)
FeedLoop(r, str, eof, n) ==
    IF n <= 1 THEN FeedStep(r, str, eof)
    ELSE LET half == FeedLoop(r, str, eof, n \div 2)
         IN IF half.done THEN half ELSE FeedLoop(half, str, eof, n - n \div 2)

\* feed on the line buffer buf: [s, linebuf].  Every pass of the loop but the last takes a byte.
feed(s, buf, str, eof) ==
    LET h == Call("FeedFrontMatter", <<s, str>>)
        rest == h.rest
        skip == h.s.pr.last_buffer_ended_with_cr /\ rest # <<>> /\ At(rest, 0) = "\n"
        s1 == [h.s EXCEPT !.pr.total_size = AddSize(@, Len(rest)),
                          !.pr.last_buffer_ended_with_cr = FALSE]
        r == Ended(FeedLoop([s |-> s1, linebuf |-> buf,
                             buffer |-> IF skip THEN 1 ELSE 0, done |-> FALSE],
                            rest, eof, Len(rest) + 1))
    IN IF h.s.panic # "" THEN [s |-> h.s, linebuf |-> buf]
       ELSE [s |-> r.s, linebuf |-> r.linebuf]

(***************************************************************************)
(* The methods of the Parser by name.  A method applies another one        *)
(* through Call, which is recursive: TLC then unfolds the body of each     *)
(* method once, and not once more at every place that uses its result.     *)
(***************************************************************************)
Call(op, a) ==
    CASE op = "find_first_nonspace" -> find_first_nonspace(a[1], a[2])
      [] op = "advance_offset" -> advance_offset(a[1], a[2], a[3], a[4])
      [] op = "scan_thematic_break_inner" -> scan_thematic_break_inner(a[1], a[2])
      [] op = "scan_thematic_break" -> scan_thematic_break(a[1], a[2])
      [] op = "add_line" -> add_line(a[1], a[2], a[3])
      [] op = "normalize_label" -> normalize_label(a[1], a[2])
      [] op = "skip_spaces" -> skip_spaces(a[1], a[2])
      [] op = "skip_line_end" -> skip_line_end(a[1], a[2])
      [] op = "spnl" -> spnl(a[1], a[2])
      [] op = "link_label" -> link_label(a[1], a[2])
      [] op = "manual_scan_link_url" -> manual_scan_link_url(a[1])
      [] op = "link_title" -> link_title(a[1])
      [] op = "parse_reference_inline" -> parse_reference_inline(a[1], a[2], a[3])
      [] op = "resolve_reference_link_definitions" -> resolve_reference_link_definitions(a[1], a[2])
      [] op = "finalize" -> finalize(a[1], a[2])
      [] op = "add_child" -> add_child(a[1], a[2], a[3], a[4])
      [] op = "BlockQuoteMarker" -> BlockQuoteMarker(a[1], a[2])
      [] op = "parse_block_quote_prefix" -> parse_block_quote_prefix(a[1], a[2])
      [] op = "parse_footnote_definition_block_prefix" -> parse_footnote_definition_block_prefix(a[1], a[2])
      [] op = "ItemPrefix" -> ItemPrefix(a[1], a[2], a[3], a[4], a[5])
      [] op = "parse_node_item_prefix" -> parse_node_item_prefix(a[1], a[2], a[3])
      [] op = "parse_description_item_prefix" -> parse_description_item_prefix(a[1], a[2], a[3])
      [] op = "parse_code_block_prefix" -> parse_code_block_prefix(a[1], a[2], a[3])
      [] op = "parse_html_block_prefix" -> parse_html_block_prefix(a[1], a[2])
      [] op = "FinalizeLastChild" -> FinalizeLastChild(a[1], a[2])
      [] op = "parse_multiline_block_quote_prefix" -> parse_multiline_block_quote_prefix(a[1], a[2], a[3])
      [] op = "ContinuePrefix" -> ContinuePrefix(a[1], a[2], a[3])
      [] op = "check_open_blocks_inner" -> check_open_blocks_inner(a[1], a[2], a[3])
      [] op = "check_open_blocks" -> check_open_blocks(a[1], a[2])
      [] op = "parse_desc_list_details" -> parse_desc_list_details(a[1], a[2])
      [] op = "OpenMultilineBlockQuote" -> OpenMultilineBlockQuote(a[1], a[2], a[3], a[4], a[5])
      [] op = "OpenBlockQuote" -> OpenBlockQuote(a[1], a[2], a[3], a[4])
      [] op = "OpenAtxHeading" -> OpenAtxHeading(a[1], a[2], a[3], a[4], a[5])
      [] op = "OpenCodeFence" -> OpenCodeFence(a[1], a[2], a[3], a[4], a[5])
      [] op = "SetextHeading" -> SetextHeading(a[1], a[2], a[3], a[4])
      [] op = "OpenThematicBreak" -> OpenThematicBreak(a[1], a[2], a[3], a[4])
      [] op = "OpenFootnoteDefinition" -> OpenFootnoteDefinition(a[1], a[2], a[3], a[4], a[5])
      [] op = "DescriptionDetailsMarker" -> DescriptionDetailsMarker(a[1], a[2])
      [] op = "OpenListItem" -> OpenListItem(a[1], a[2], a[3], a[4], a[5], a[6])
      [] op = "OpenIndentedCode" -> OpenIndentedCode(a[1], a[2], a[3], a[4])
      [] op = "OpenHtmlBlock" -> OpenHtmlBlock(a[1], a[2], a[3], a[4])
      [] op = "OpenStepRest" -> OpenStepRest(a[1], a[2], a[3], a[4], a[5], a[6])
      [] op = "OpenStep" -> OpenStep(a[1], a[2], a[3], a[4], a[5], a[6])
      [] op = "OpenLoop" -> OpenLoop(a[1], a[2], a[3], a[4], a[5], a[6])
      [] op = "open_new_blocks" -> open_new_blocks(a[1], a[2], a[3], a[4])
      [] op = "FinalizeUpTo" -> FinalizeUpTo(a[1], a[2])
      [] op = "AddTextOtherwise" -> AddTextOtherwise(a[1], a[2], a[3])
      [] op = "AddTextHtmlBlock" -> AddTextHtmlBlock(a[1], a[2], a[3])
      [] op = "add_text_to_container" -> add_text_to_container(a[1], a[2], a[3], a[4])
      [] op = "process_line" -> process_line(a[1], a[2])
      [] op = "process_tasklist" -> process_tasklist(a[1], a[2])
      [] op = "postprocess_text_node" -> postprocess_text_node(a[1], a[2])
      [] op = "postprocess_text_nodes" -> postprocess_text_nodes(a[1], a[2])
      [] op = "parse_inlines" -> parse_inlines(a[1], a[2])
      [] op = "process_inlines" -> process_inlines(a[1])
      [] op = "find_footnote_definitions" -> find_footnote_definitions(a[1], a[2])
      [] op = "find_footnote_references" -> find_footnote_references(a[1], a[2])
      [] op = "cleanup_footnote_definitions" -> cleanup_footnote_definitions(a[1], a[2])
      [] op = "process_footnotes" -> process_footnotes(a[1], a[2], a[3])
      [] op = "finalize_document" -> finalize_document(a[1], a[2], a[3])
      [] op = "finish" -> finish(a[1], a[2], a[3], a[4])
      [] op = "FeedFrontMatter" -> FeedFrontMatter(a[1], a[2])
      [] op = "feed" -> feed(a[1], a[2], a[3], a[4])

(***************************************************************************)
(* The state machine.  parse_document builds the root and the Parser, feeds *)
(* the buffer line by line (one FeedLine per iteration of the loop of feed) *)
(* and finishes.                                                           *)
(***************************************************************************)
Options(philomena, footnotes, description_lists, multiline_block_quotes) ==
    [philomena |-> philomena, footnotes |-> footnotes,
     description_lists |-> description_lists,
     multiline_block_quotes |-> multiline_block_quotes,
     table |-> FALSE, default_info_string |-> <<>>,
     front_matter_delimiter |-> <<>>,
     tasklist |-> FALSE, relaxed_tasklist_matching |-> FALSE]

\* Parser::new
ParserNew ==
    [current |-> ROOT, line_number |-> 0, offset |-> 0, column |-> 0,
     thematic_break_kill_pos |-> 0, first_nonspace |-> 0, first_nonspace_column |-> 0,
     indent |-> 0, blank |-> FALSE, partially_consumed_tab |-> FALSE,
     curline_len |-> 0, curline_end_col |-> 0, last_line_length |-> 0,
     last_buffer_ended_with_cr |-> FALSE, total_size |-> 0]

\* The root of parse_document_with_broken_link_callback: sourcepos (1, 1, 1, 1).
Root == [AstNew([kind |-> "Document"], 1, 1) EXCEPT !.sourcepos.end = LineColumn(1, 1)]

State ==
    [nodes |-> nodes, pr |-> parser, refmap |-> refmap, opt |-> options,
     ev |-> events, panic |-> panic, defs |-> defs, handed |-> handed]

Becomes(s) ==
    /\ nodes' = s.nodes
    /\ parser' = s.pr
    /\ refmap' = s.refmap
    /\ events' = s.ev
    /\ panic' = s.panic
    /\ defs' = s.defs
    /\ handed' = s.handed
    /\ options' = options

InitWith(opts) ==
    /\ nodes = <<Root>>
    /\ parser = ParserNew
    /\ refmap = <<>>
    /\ options \in opts
    /\ events = <<>>
    /\ panic = ""
    /\ defs = <<>>
    /\ phase = "feed"
    /\ linebuf = <<>>
    /\ handed = <<>>
    /\ fed = <<>>

\* One line of the buffer goes through process_line.
FeedLine(text, max_lines) ==
    /\ phase = "feed"
    /\ panic = ""
    /\ parser.line_number < max_lines
    /\ Becomes(Call("process_line", <<State, text>>))
    /\ phase' = "feed"
    /\ UNCHANGED <<linebuf, fed>>

\* The keys a map of footnote definitions can have with the lines below.
FootnoteKeys == {<<"a">>, <<"b">>}

\* The orders a HashMap can give its keys in.
HashOrders ==
    {p \in [1..Cardinality(FootnoteKeys) -> FootnoteKeys] :
        \A i, j \in DOMAIN p : p[i] = p[j] => i = j}

\* One call of feed on a fragment of the input.  A call with eof is the last.
Feed(str, eof, max_fragments) ==
    /\ phase = "feed"
    /\ panic = ""
    /\ Len(fed) < max_fragments
    /\ LET r == Call("feed", <<State, linebuf, str, eof>>)
       IN Becomes(r.s) /\ linebuf' = r.linebuf
    /\ fed' = Append(fed, str)
    /\ phase' = IF eof THEN "eof" ELSE "feed"

\* The input is exhausted: finish, on the line buffer.  The order of the
\* HashMap of process_footnotes and what its unstable sort does with equal
\* keys are those of this run.
Finish ==
    /\ phase \in {"feed", "eof"}
    /\ panic = ""
    /\ \E hash \in HashOrders, ties \in HashOrders :
          Becomes(Call("finish", <<State, linebuf, hash, ties>>))
    /\ linebuf' = <<>>
    /\ phase' = "done"
    /\ UNCHANGED fed

(***************************************************************************)
(* Input lines, without their terminator.                                  *)
(***************************************************************************)
Lines ==
    { <<>>,
      <<"a">>,
      <<">", " ", "a">>,
      <<">", "a">>,
      <<">", "\t", "a">>,
      <<">", " ", ">", " ", "a">>,
      <<">", " ">>,
      <<">">>,
      <<">", ">", ">">>,
      <<"-", " ", "a">>,
      <<" ", " ", "a">>,
      <<" ", " ", " ", " ", "a">>,
      <<"-", "-", "-">>,
      <<"=", "=", "=">>,
      <<"#", " ", "a">>,
      <<"#">>,
      <<"~", "~", "~">>,
      <<":", " ", "a">>,
      <<"-", " ", ">", " ", "a">>,
      <<" ", " ", ">", "a">>,
      <<"\t", "a">>,
      <<"1", ".", " ", "a">>,
      <<"[", "a", "]", ":", " ", "u">>,
      <<"[", "^", "a", "]", ":", " ", "a">>,
      <<"-">> }

AllOptions ==
    { Options(TRUE, TRUE, TRUE, TRUE), Options(FALSE, FALSE, FALSE, FALSE) }

Init == InitWith(AllOptions)

Next ==
    \/ \E text \in Lines : FeedLine(text, MaxLines)
    \/ Finish

Spec == Init /\ [][Next]_vars

\* Lines around reference definitions: the same label twice, in either case,
\* with and without a title, inside containers and at the top.
RefLines ==
    { <<>>,
      <<"a">>,
      <<"[", "a", "]", ":", " ", "u">>,
      <<"[", "A", "]", ":", " ", "v">>,
      <<"[", "a", "]", ":", " ", "w", " ", "'", "t", "'">>,
      <<">", " ", "[", "a", "]", ":", " ", "x">>,
      <<">", ">", ">">> }

RefOptions ==
    { Options(TRUE, FALSE, FALSE, TRUE), Options(FALSE, FALSE, FALSE, FALSE) }

InitRefs == InitWith(RefOptions)

NextRefs ==
    \/ \E text \in RefLines : FeedLine(text, MaxRefLines)
    \/ Finish

SpecRefs == InitRefs /\ [][NextRefs]_vars

\* Lines around footnotes: references in paragraphs and inside definitions,
\* a definition inside a definition, the same label twice, a continuation.
FootnoteLines ==
    { <<>>,
      <<"a", "[", "^", "a", "]">>,
      <<"[", "^", "b", "]">>,
      <<"[", "^", "a", "]", ":", " ", "x", "[", "^", "b", "]">>,
      <<"[", "^", "b", "]", ":", " ", "y">>,
      <<"[", "^", "A", "]", ":", " ", "z">>,
      <<"[", "^", "a", "]", ":", " ", "[", "^", "b", "]", ":", " ", "x">>,
      <<" ", " ", " ", " ", "[", "^", "a", "]">> }

FootnoteOptions ==
    { Options(TRUE, TRUE, FALSE, FALSE), Options(FALSE, TRUE, FALSE, FALSE) }

InitFootnotes == InitWith(FootnoteOptions)

NextFootnotes ==
    \/ \E text \in FootnoteLines : FeedLine(text, MaxFootnoteLines)
    \/ Finish

SpecFootnotes == InitFootnotes /\ [][NextFootnotes]_vars

\* Lines of nested list markers: k times "- " and then "a", alone or after
\* the indentation that continues the items of a line before.
Markers(k) == Rep(<<"-", " ">>, k) \o <<"a">>

Indented(items, k) == Rep(<<" ", " ">>, items) \o Markers(k)

MarkerCounts == {1, 2, MAX_LIST_DEPTH - 1, MAX_LIST_DEPTH, MAX_LIST_DEPTH + 1}

DepthLines ==
    {Markers(k) : k \in MarkerCounts}
       \cup {Indented(items, k) : items \in {1, MAX_LIST_DEPTH - 1}, k \in {0, 1, 2}}
       \cup {<<>>, <<"a">>}

DepthOptions ==
    { Options(TRUE, FALSE, FALSE, FALSE), Options(FALSE, FALSE, FALSE, FALSE) }

InitDepth == InitWith(DepthOptions)

NextDepth ==
    \/ \E text \in DepthLines : FeedLine(text, MaxDepthLines)
    \/ Finish

SpecDepth == InitDepth /\ [][NextDepth]_vars

\* Fragments of an input: the three line ends, alone, together and cut in
\* two; NUL bytes first, last and inside a line; no front matter delimiter.
Fragments ==
    { <<>>,
      <<"a">>,
      <<"\n">>,
      <<"\r">>,
      <<"\r", "\n">>,
      <<"a", "\r">>,
      <<"\n", "b">>,
      <<"a", "\n", "b">>,
      <<NUL>>,
      <<NUL, "a">>,
      <<"a", NUL>>,
      <<"a", NUL, "b", "\n">>,
      <<"a", "\n", ">", " ", "b", "\r", "\n", "c", "\n">> }

FeedOptions ==
    { Options(TRUE, FALSE, FALSE, FALSE), Options(FALSE, FALSE, FALSE, FALSE) }

InitFeed == InitWith(FeedOptions)

NextFeed ==
    \/ \E str \in Fragments, eof \in BOOLEAN : Feed(str, eof, MaxFragments)
    \/ Finish

SpecFeed == InitFeed /\ [][NextFeed]_vars

\* Fragments of an input around a front matter block, with the delimiter "-"
\* configured.
FrontMatterFragments ==
    { <<>>,
      <<"a">>,
      <<"-", "\n">>,
      <<"a", "\n", "-", "\n">>,
      <<"-", "\n", "a", "\n", "-", "\n">>,
      <<"-", "\n", "a", "\n", "-", "\n", "\n", "b">>,
      <<"b", "\n">> }

FrontMatterOptions ==
    { [Options(p, FALSE, FALSE, FALSE) EXCEPT !.front_matter_delimiter = <<"-">>] :
        p \in BOOLEAN }

InitFrontMatter == InitWith(FrontMatterOptions)

NextFrontMatter ==
    \/ \E str \in FrontMatterFragments, eof \in BOOLEAN : Feed(str, eof, MaxFragments)
    \/ Finish

SpecFrontMatter == InitFrontMatter /\ [][NextFrontMatter]_vars

\* Lines of every kind of block but the description list: code fenced and
\* indented, HTML that ends on its line and HTML that does not, inside list
\* items and multiline block quotes and at the top.
BlockLines ==
    { <<>>,
      <<"a">>,
      <<">", " ", "a">>,
      <<"-", " ", "a">>,
      <<" ", " ", "a">>,
      <<"#", " ", "a">>,
      <<"-", "-", "-">>,
      <<">", ">", ">">>,
      <<"~", "~", "~">>,
      <<"-", " ", "~", "~", "~">>,
      <<" ", " ", " ", " ", "a">>,
      <<"-", " ", " ", " ", " ", " ", "a">>,
      <<"<", "!", "a">>,
      <<"<", "!", "a", ">">>,
      <<"-", " ", "<", "!", "a">> }

BlockOptions ==
    { Options(TRUE, TRUE, FALSE, TRUE), Options(FALSE, FALSE, FALSE, FALSE) }

InitBlocks == InitWith(BlockOptions)

NextBlocks ==
    \/ \E text \in BlockLines : FeedLine(text, MaxBlockLines)
    \/ Finish

SpecBlocks == InitBlocks /\ [][NextBlocks]_vars

\* Lines around description lists: a term, its details, and what can come
\* between one description list and the next.
DescLines ==
    { <<>>,
      <<"a">>,
      <<":">>,
      <<":", " ", "a">> }

DescOptions ==
    { Options(FALSE, FALSE, TRUE, FALSE), Options(TRUE, FALSE, TRUE, TRUE) }

InitDesc == InitWith(DescOptions)

NextDesc ==
    \/ \E text \in DescLines : FeedLine(text, MaxDescLines)
    \/ Finish

SpecDesc == InitDesc /\ [][NextDesc]_vars

\* Lines around fenced code: fences of both characters, longer and shorter,
\* indented by less and by more than 3 columns, followed by text, and inside
\* a list item.
FenceLines ==
    { <<>>,
      <<"a">>,
      <<" ", "a">>,
      <<" ", " ", "a">>,
      <<"~", "~", "~">>,
      <<"~", "~", "~", "~">>,
      <<" ", "~", "~", "~">>,
      <<" ", " ", "~", "~", "~">>,
      <<" ", " ", " ", " ", "~", "~", "~">>,
      <<"~", "~", "~", " ", "a">>,
      <<"~", "~", "~", " ">>,
      <<Backtick, Backtick, Backtick>>,
      <<"\t", "a">>,
      <<"-", " ", "~", "~", "~", "~">> }

FenceOptions ==
    { Options(FALSE, FALSE, FALSE, FALSE), Options(TRUE, TRUE, TRUE, TRUE) }

InitFence == InitWith(FenceOptions)

NextFence ==
    \/ \E text \in FenceLines : FeedLine(text, MaxFenceLines)
    \/ Finish

SpecFence == InitFence /\ [][NextFence]_vars

\* Lines after a footnote definition: empty, of spaces only, indented by 2
\* and by 4 columns, and the same inside a block quote.
NoteLines ==
    { <<>>,
      <<"a">>,
      <<" ", " ">>,
      <<" ", " ", "a">>,
      <<" ", " ", " ", " ", "a">>,
      <<"[", "^", "a", "]", ":", " ", "a">>,
      <<">", " ", "[", "^", "a", "]", ":", " ", "a">>,
      <<">", " ">>,
      <<">", " ", " ", " ", " ", " ", "a">> }

NoteOptions ==
    { Options(FALSE, TRUE, FALSE, FALSE), Options(TRUE, TRUE, TRUE, TRUE) }

InitNotes == InitWith(NoteOptions)

NextNotes ==
    \/ \E text \in NoteLines : FeedLine(text, MaxNoteLines)
    \/ Finish

SpecNotes == InitNotes /\ [][NextNotes]_vars

\* Lines of lists: bullet markers of two characters, ordered markers of
\* both delimiters, a nested marker, a continuation, an item that starts
\* with indented code, and blank lines between them.
ListLines ==
    { <<>>,
      <<"a">>,
      <<"-", " ", "a">>,
      <<"*", " ", "a">>,
      <<"1", ".", " ", "a">>,
      <<"1", ")", " ", "a">>,
      <<" ", " ", "a">>,
      <<" ", " ", "-", " ", "a">>,
      <<"-", " ", " ", " ", " ", " ", "a">> }

ListOptions ==
    { Options(FALSE, FALSE, FALSE, FALSE), Options(TRUE, TRUE, TRUE, TRUE) }

InitLists == InitWith(ListOptions)

NextLists ==
    \/ \E text \in ListLines : FeedLine(text, MaxListLines)
    \/ Finish

SpecLists == InitLists /\ [][NextLists]_vars

\* Lines with tabs: one and two tabs at the start of a line, after a space,
\* after a block quote marker and after a list marker, with the blocks that
\* take part of a tab as their prefix.
TabLines ==
    { <<>>,
      <<"a">>,
      <<"\t", "a">>,
      <<"\t", "\t", "a">>,
      <<" ", "\t", "a">>,
      <<">", "\t", "a">>,
      <<">", "\t", "\t", "a">>,
      <<">", "\t">>,
      <<"-", "\t", "a">>,
      <<"-", " ", "a">>,
      <<" ", "~", "~", "~">> }

TabOptions ==
    { Options(FALSE, FALSE, FALSE, FALSE), Options(TRUE, TRUE, TRUE, TRUE) }

InitTabs == InitWith(TabOptions)

NextTabs ==
    \/ \E text \in TabLines : FeedLine(text, MaxTabLines)
    \/ Finish

SpecTabs == InitTabs /\ [][NextTabs]_vars

\* Lines of thematic breaks and of what fails to be one: runs of '-', '*'
\* and '_' alone, after list markers of the same and of another character,
\* after a block quote marker, followed by text, and too short.
BreakLines ==
    { <<>>,
      <<"a">>,
      <<"-", "-", "-">>,
      <<"-", "-">>,
      <<"_", " ", "_", "\t", "_", " ">>,
      <<"-", " ", "-", " ", "-">>,
      <<"-", " ", "-", " ", "a">>,
      <<"-", " ", "-", " ", "-", " ", "a">>,
      <<"-", " ", "*", " ", "*", " ", "*">>,
      <<"-", " ", "*", " ", "*", "-", "*">>,
      <<"*", " ", "-", " ", "-", "-", "-">>,
      <<"-", " ", "-", " ", "*", "*", "*">>,
      <<">", " ", "-", "-", "-">>,
      <<" ", " ", " ", " ", "-", "-", "-">> }

BreakOptions ==
    { Options(FALSE, FALSE, FALSE, FALSE), Options(TRUE, TRUE, TRUE, TRUE) }

InitBreaks == InitWith(BreakOptions)

NextBreaks ==
    \/ \E text \in BreakLines : FeedLine(text, MaxBreakLines)
    \/ Finish

SpecBreaks == InitBreaks /\ [][NextBreaks]_vars

\* Lines of task markers and of links: list items that start with "[x]",
\* "[ ]", "[X]" and "[y]", a marker outside an item, after a block quote
\* marker, in a nested item, indented under an item and after other text,
\* a link whose text holds a "*", and the definition of a reference "x".
InlineLines ==
    { <<>>,
      <<"a">>,
      <<"-", " ", "a">>,
      <<"-", " ", "[", "x", "]", " ", "a">>,
      <<"-", " ", "[", " ", "]", " ", "a">>,
      <<"-", " ", "[", "y", "]", " ", "a">>,
      <<"-", " ", "[", "X", "]">>,
      <<"1", ".", " ", "[", "x", "]", "\t", "a">>,
      <<"[", "x", "]", " ", "a">>,
      <<" ", " ", "[", "x", "]", " ", "a">>,
      <<">", " ", "[", "x", "]", " ", "a">>,
      <<"-", " ", "-", " ", "[", "x", "]", " ", "a">>,
      <<"-", " ", "a", " ", "[", "x", "]", " ", "b">>,
      <<"[", "a", "*", "b", "]", "(", "u", ")">>,
      <<"[", "x", "]", ":", " ", "u">> }

InlineOptions ==
    { [Options(FALSE, FALSE, FALSE, FALSE) EXCEPT !.tasklist = t,
                                                  !.relaxed_tasklist_matching = r] :
        t \in BOOLEAN, r \in BOOLEAN }

InitInline == InitWith(InlineOptions)

NextInline ==
    \/ \E text \in InlineLines : FeedLine(text, MaxInlineLines)
    \/ Finish

SpecInline == InitInline /\ [][NextInline]_vars

\* Fragments of one line and of several: markers of block quotes, lists,
\* headings, fences, thematic breaks and footnote definitions one after the
\* other on a line, line ends of the three kinds, a NUL, and a last line
\* without an end.
ProgressFragments ==
    { <<>>,
      <<"a", "\n">>,
      <<"\n", "\r", "\n">>,
      <<">", " ", "-", " ", "a", "\n">>,
      <<"-", " ", "-", " ", "-", "\n">>,
      <<"-", " ", "*", " ", "*", " ", "*", "\n">>,
      <<"1", ".", " ", ">", " ", "#", " ", "a", "\r", "\n">>,
      <<">", " ", Backtick, Backtick, Backtick, "\n", ">", " ", "b", "\r">>,
      <<"a", "\n", "=", "=", "=", "\n">>,
      <<"[", "^", "a", "]", ":", " ", "-", " ", "b", "\n">>,
      <<"-", "\n", NUL, "a">>,
      <<" ", " ", " ", " ", "a", "\n">>,
      <<">", " ", ">", " ", ">", " ">> }

ProgressOptions ==
    { Options(FALSE, TRUE, FALSE, FALSE), Options(TRUE, TRUE, TRUE, TRUE) }

InitProgress == InitWith(ProgressOptions)

NextProgress ==
    \/ \E str \in ProgressFragments, eof \in BOOLEAN : Feed(str, eof, MaxProgressFragments)
    \/ Finish

SpecProgress == InitProgress /\ [][NextProgress]_vars

(***************************************************************************)
(* Properties.                                                             *)
(***************************************************************************)
Done == phase = "done"

\* C1: parse_document is total: no step fails an assert!, unwraps an absent
\* parent, indexes a line or a buffer out of range, underflows a subtraction
\* or reaches unreachable!(), whatever the lines and the options.
C1_NoPanic == panic = ""

\* All lines of the bound went through, with fences, lists and quotes met on
\* the way, and the Document came back closed.
C1_Returned ==
    /\ Done
    /\ panic = ""
    /\ parser.line_number = MaxLines
    /\ ~nodes[ROOT].open
    /\ \E n \in DOMAIN nodes : Kind(nodes, n) \in {"CodeBlock", "Item", "BlockQuote"}

\* C2: after parse_document has returned, no node created during the parse
\* is open.
C2_AllClosed == Done => \A n \in DOMAIN nodes : ~nodes[n].open

\* The reference definitions of the document: those that finalization took
\* out of a paragraph (defs), and those still at the head of a Paragraph that
\* was never finalized, each with the line it starts on.
PendingDefinitions ==
    LET scratch == [State EXCEPT !.defs = <<>>]
        open_paragraphs == {n \in DOMAIN nodes : nodes[n].open /\ Kind(nodes, n) = "Paragraph"}
    IN UNION { Range(ResolveLoop(scratch, nodes[n].content, 0,
                                 nodes[n].sourcepos.start.line).s.defs) :
               n \in open_paragraphs }

Definitions == Range(defs) \cup PendingDefinitions

\* C3: once the block phase is complete, every key of the reference map is
\* a non-empty normalized label, and the entry of a label is the url and
\* title of the first definition of that label in document order.
C3_FirstDefinitionWins ==
    Done =>
       /\ \A k \in DOMAIN refmap :
             /\ k # <<>>
             /\ normalize_label(k, FALSE) = k
             /\ \E d \in Definitions : d.label = k
       /\ \A d \in Definitions :
             /\ d.label \in DOMAIN refmap
             /\ (\A e \in Definitions : e.label = d.label => d.line <= e.line)
                   => refmap[d.label] = d.reference

\* The final tree, the footnote nodes among all nodes created, and the key a
\* footnote name is matched by.
FinalTree == Range(Preorder(nodes, ROOT))

FootnoteKey(n) == normalize_label(nodes[n].value.name, FALSE)

AllDefinitionNodes == {n \in DOMAIN nodes : Kind(nodes, n) = "FootnoteDefinition"}

AllReferenceNodes == {n \in DOMAIN nodes : Kind(nodes, n) = "FootnoteReference"}

\* C4: with footnotes enabled, the total_references of every
\* FootnoteDefinition of the final tree is the number of FootnoteReference
\* nodes of the final tree that carry its name (and so its ix).
C4_TotalReferences ==
    (Done /\ options.footnotes) =>
       \A d \in AllDefinitionNodes \cap FinalTree :
          nodes[d].value.total_references =
             Cardinality({r \in AllReferenceNodes \cap FinalTree :
                             FootnoteKey(r) = FootnoteKey(d)})

\* The ix values handed out, and the first reference that got each: inline
\* nodes are created in the preorder of the tree, so the smallest node is the
\* first in preorder.
IxUsed == {nodes[r].value.ix : r \in AllReferenceNodes} \ {0}

FirstReference(k) ==
    LET rs == {r \in AllReferenceNodes : nodes[r].value.ix = k}
    IN CHOOSE r \in rs : \A q \in rs : r <= q

\* C5: with footnotes enabled, after process_footnotes the definitions that
\* were referenced are the trailing children of the Document, in ascending
\* ix, the ix being 1..n in the preorder of the first references; and a
\* definition that was never referenced is not in the final tree.
C5_TrailingDefinitions ==
    (Done /\ options.footnotes) =>
       LET n == Cardinality(IxUsed)
           ch == nodes[ROOT].children
       IN /\ IxUsed = 1..n
          /\ Len(ch) >= n
          /\ \A k \in 1..n :
                LET d == ch[Len(ch) - n + k]
                IN /\ Kind(nodes, d) = "FootnoteDefinition"
                   /\ FootnoteKey(d) = FootnoteKey(FirstReference(k))
                   /\ nodes[d].value.total_references >= 1
          /\ \A j, k \in 1..n : j < k => FirstReference(j) < FirstReference(k)
          /\ \A d \in AllDefinitionNodes :
                nodes[d].value.total_references = 0 => d \notin FinalTree

(***************************************************************************)
(* Block quotes, lazy continuation and setext headings, read off the log   *)
(* of the last line.                                                       *)
(***************************************************************************)
\* A line has been processed and its log is there.
Fed == phase = "feed" /\ events # <<>>

\* The indices of the log entries of one kind.
Logged(kind) == {j \in DOMAIN events : events[j].ev = kind}

\* The sequence tail ends the sequence seq.
EndsWith(seq, tail) ==
    Len(tail) <= Len(seq) /\ SubSeq(seq, Len(seq) - Len(tail) + 1, Len(seq)) = tail

\* The log entries at which the line continued or opened a BlockQuote.
QuoteTaken ==
    {j \in DOMAIN events :
        \/ events[j].ev = "prefix" /\ events[j].kind = "BlockQuote" /\ events[j].ok
        \/ events[j].ev = "open" /\ events[j].kind = "BlockQuote"}

\* The log entries at which an open BlockQuote met a '>' at indent <= 3 and
\* did not continue.
QuoteRefused ==
    {j \in Logged("prefix") :
        /\ events[j].kind = "BlockQuote" /\ ~events[j].ok
        /\ events[j].indent <= 3 /\ At(events[1].line, events[j].fn) = ">"}

\* The '>' at first_nonspace and a space or tab after it, of which one column
\* at least is taken: the offset is past it, or inside the tab.
QuoteMarker(j) ==
    LET e == events[j]
        line == events[1].line
    IN /\ e.indent <= 3
       /\ At(line, e.fn) = ">"
       /\ is_space_or_tab(At(line, e.fn + 1))
       /\ \/ e.offset >= e.fn + 2
          \/ e.offset = e.fn + 1 /\ e.tab /\ At(line, e.fn + 1) = "\t"

\* The line from the '>' of entry j on was added as text to some node.
QuoteIsText(j) ==
    \E a \in Logged("add_line") :
        /\ events[a].open
        /\ EndsWith(nodes[events[a].node].content, From(events[1].line, events[j].fn))

\* C6 as it stands: a BlockQuote is opened or continued only at indent <= 3
\* by a '>' and a space or tab, which is taken; at any other '>' the open
\* BlockQuote is closed and the line from the '>' on is text.
C6_QuoteClosed ==
    Fed => /\ \A j \in QuoteTaken : QuoteMarker(j)
           /\ \A j \in QuoteRefused :
                 ~nodes[events[j].node].open /\ QuoteIsText(j)

\* C6: a BlockQuote is opened or continued only at indent <= 3 by a '>' and a
\* space or tab, which is taken.  At any other '>' the open BlockQuote does
\* not continue: it is closed and the line from the '>' on is text, or is a
\* fence of the multiline block quotes, unless the line is a lazy
\* continuation, which leaves the BlockQuote open and adds the line from the
\* '>' on to the open Paragraph inside it; the deepest matched container is
\* then neither the Document nor a BlockQuote.
C6_QuotePrefix ==
    Fed => /\ \A j \in QuoteTaken : QuoteMarker(j)
           /\ \A j \in QuoteRefused :
                 IF Logged("lazy") # {}
                 THEN /\ nodes[events[j].node].open
                      /\ QuoteIsText(j)
                      /\ Kind(nodes, events[1].last_matched) \notin {"Document", "BlockQuote"}
                 ELSE /\ ~nodes[events[j].node].open
                      /\ \/ QuoteIsText(j)
                         \/ /\ options.multiline_block_quotes
                            /\ open_multiline_block_quote_fence(
                                   From(events[1].line, events[j].fn)) > 0

\* A '>' with no space after it met an open BlockQuote, which was closed, and
\* the line became a new Paragraph.
C6_Refused ==
    /\ Fed
    /\ \E j \in QuoteRefused :
          /\ ~nodes[events[j].node].open
          /\ Logged("lazy") = {}
          /\ \E a \in Logged("add_child") : Kind(nodes, events[a].node) = "Paragraph"

\* The open blocks, from the last child of n down.
RECURSIVE OpenChain(_, _)
OpenChain(ns, n) ==
    IF last_child_is_open(ns, n)
    THEN {last_child(ns, n)} \cup OpenChain(ns, last_child(ns, n))
    ELSE {}

\* The step of a line that leaves some open block unmatched, has text after
\* the prefixes it matched, and matches nothing deeper than the Document or a
\* BlockQuote.
UnderQuote ==
    /\ phase' = "feed" /\ events' # <<>>
    /\ events'[1].last_matched # 0
    /\ ~events'[1].all_matched
    /\ ~is_blank(From(events'[1].line, events'[1].offset))
    /\ Kind(nodes, events'[1].last_matched) \in {"Document", "BlockQuote"}

\* The step of a line that is a lazy continuation.
Lazy == phase' = "feed" /\ \E j \in DOMAIN events' : events'[j].ev = "lazy"

\* C7: a line with text that leaves an open block unmatched and matches
\* nothing deeper than the Document or a BlockQuote is no lazy continuation:
\* nothing is added to the blocks it left unmatched, all of them are closed,
\* and a new block is added to the matched container.  A lazy continuation
\* adds the line to the open Paragraph, opens no block, and its deepest
\* matched container is neither the Document nor a BlockQuote.
C7_NoLazyUnderQuote ==
    [][LET head == events'[1]
           unmatched == OpenChain(nodes, ROOT)
                           \ ({head.last_matched} \cup Ancestors(nodes, head.last_matched))
           of(kind) == {j \in DOMAIN events' : events'[j].ev = kind}
       IN /\ UnderQuote =>
               /\ ~Lazy
               /\ \A n \in unmatched : ~nodes'[n].open
               /\ \A j \in of("add_line") : events'[j].node \notin unmatched
               /\ \E j \in of("add_child") : events'[j].parent = head.last_matched
          /\ Lazy =>
               /\ head.last_matched # 0
               /\ Kind(nodes, head.last_matched) \notin {"Document", "BlockQuote"}
               /\ of("add_child") = {} /\ of("open") = {}
               /\ \A j \in of("lazy") :
                     /\ events'[j].node = parser.current
                     /\ Kind(nodes', events'[j].node) = "Paragraph"
                     /\ nodes'[events'[j].node].open
                     /\ EndsWith(nodes'[events'[j].node].content,
                                 From(head.line, parser'.offset))]_vars

\* A line with text did not continue the BlockQuote the open Paragraph was in:
\* the Paragraph is closed and a new one is in the Document.
C7_Unnested ==
    /\ Fed
    /\ ~events[1].all_matched
    /\ events[1].last_matched = ROOT
    /\ Kind(nodes, events[1].before) = "Paragraph"
    /\ ~nodes[events[1].before].open
    /\ Kind(nodes, parent_of(nodes, events[1].before)) = "BlockQuote"
    /\ Logged("lazy") = {}
    /\ \E a \in Logged("add_child") :
          events[a].parent = ROOT /\ Kind(nodes, events[a].node) = "Paragraph"

\* The rest of the last line, after the prefixes of the blocks it continued.
Rest == From(events[1].line, events[1].offset)

\* The last line continued every open block down to an open Paragraph.
AfterParagraph ==
    /\ Fed
    /\ events[1].all_matched
    /\ events[1].last_matched # 0
    /\ Kind(nodes, events[1].last_matched) = "Paragraph"

\* C8: under the philomena extension no Heading is a setext heading; a line
\* of '---' that follows a Paragraph closes it and makes a ThematicBreak, the
\* next sibling of the Paragraph if that is still in the tree; a line of
\* '===' is added to the Paragraph, which stays open, and makes no node.
C8_NoSetextHeading ==
    options.philomena =>
       /\ \A n \in DOMAIN nodes : Kind(nodes, n) = "Heading" => ~nodes[n].value.setext
       /\ (AfterParagraph /\ Rest = <<"-", "-", "-", "\n">>) =>
             LET p == events[1].last_matched
             IN /\ ~nodes[p].open
                /\ \E j \in Logged("open") :
                      LET t == events[j].node
                      IN /\ events[j].kind = "ThematicBreak"
                         /\ Kind(nodes, t) = "ThematicBreak"
                         /\ nodes[p].parent # 0 =>
                               /\ nodes[t].parent = nodes[p].parent
                               /\ previous_sibling(nodes, t) = p
       /\ (AfterParagraph /\ Rest = <<"=", "=", "=", "\n">>) =>
             LET p == events[1].last_matched
             IN /\ nodes[p].open
                /\ parser.current = p
                /\ Kind(nodes, p) = "Paragraph"
                /\ Logged("add_child") = {}
                /\ \E a \in Logged("add_line") : events[a].node = p
                /\ EndsWith(nodes[p].content, <<"=", "=", "=", "\n">>)

\* Under philomena a line of '---' came after a Paragraph that holds a line
\* of '===', and made a ThematicBreak after it.
C8_BreakAfterParagraph ==
    /\ options.philomena
    /\ AfterParagraph
    /\ Rest = <<"-", "-", "-", "\n">>
    /\ EndsWith(nodes[events[1].last_matched].content, <<"=", "=", "=", "\n">>)
    /\ \E n \in DOMAIN nodes :
          Kind(nodes, n) = "ThematicBreak" /\ previous_sibling(nodes, n) = events[1].last_matched

\* The List ancestors of a node.
ListAncestors(n) == {a \in Ancestors(nodes, n) : Kind(nodes, a) = "List"}

\* C9: no node has more than MAX_LIST_DEPTH List ancestors, whether the
\* lists were opened on one line or over several.
C9_DepthBounded ==
    \A n \in DOMAIN nodes : Cardinality(ListAncestors(n)) <= MAX_LIST_DEPTH

\* C10: a first line of k nested list markers and a text opens
\* min(k, MAX_LIST_DEPTH) List/Item pairs, one inside the other, and the
\* markers beyond that stay in the text of the paragraph.
C10_MarkersOpenLists ==
    \A k \in MarkerCounts :
       (/\ phase = "feed"
        /\ parser.line_number = 1
        /\ events # <<>>
        /\ events[1].line = Markers(k) \o <<"\n">>)
       => LET opened == Min(k, MAX_LIST_DEPTH)
              lists == {n \in DOMAIN nodes : Kind(nodes, n) = "List"}
              items == {n \in DOMAIN nodes : Kind(nodes, n) = "Item"}
              paragraphs == {n \in DOMAIN nodes : Kind(nodes, n) = "Paragraph"}
          IN /\ Cardinality(lists) = opened
             /\ Cardinality(items) = opened
             /\ \A p \in paragraphs :
                   /\ Cardinality(ListAncestors(p)) = opened
                   /\ nodes[p].content = Markers(k - opened) \o <<"\n">>
             /\ Cardinality(paragraphs) = 1

\* C11: two parses of the same lines with the same options end with the
\* same tree: whatever order the HashMap of process_footnotes gives its
\* entries in, and whatever its unstable sort does with entries of equal ix,
\* finish leaves the same nodes with the same fields, and so the same
\* footnote definitions in the same order with the same numbers.
C11_Deterministic ==
    [][phase' = "done" =>
          \A hash \in HashOrders, ties \in HashOrders :
             Call("finish", <<State, linebuf, hash, ties>>).nodes = nodes']_vars

\* A parse that re-appended two footnote definitions, "b" before "a": one of
\* the orders of the HashMap is not the order they end in.
C11_TwoDefinitions ==
    /\ Done
    /\ \E i, j \in DOMAIN nodes[ROOT].children :
          /\ i < j
          /\ Kind(nodes, nodes[ROOT].children[i]) = "FootnoteDefinition"
          /\ Kind(nodes, nodes[ROOT].children[j]) = "FootnoteDefinition"
          /\ nodes[nodes[ROOT].children[i]].value.name = <<"b">>
          /\ nodes[nodes[ROOT].children[j]].value.name = <<"a">>
          /\ nodes[nodes[ROOT].children[i]].value.total_references > 0
          /\ nodes[nodes[ROOT].children[j]].value.total_references > 0

\* The input fed so far, in one piece.
Whole == Flatten(fed)

\* The state parse_document starts feed in.
Start(opts) ==
    [nodes |-> <<Root>>, pr |-> ParserNew, refmap |-> <<>>, opt |-> opts,
     ev |-> <<>>, panic |-> "", defs |-> <<>>, handed |-> <<>>]

\* parse_document on the input x: one call of feed with eof, then finish.
OneCall(x, opts) ==
    LET f == Call("feed", <<Start(opts), <<>>, x, TRUE>>)
        hash == CHOOSE h \in HashOrders : TRUE
    IN Call("finish", <<f.s, f.linebuf, hash, hash>>)

\* A LF that is a line end of its own, not the second byte of a CRLF.
LoneLF(x, i) == x[i] = "\n" /\ ~(i > 1 /\ x[i - 1] = "\r")

\* The input with ending in place of each LF line end.
WithLineEnds(x, ending) ==
    Flatten([i \in DOMAIN x |-> IF LoneLF(x, i) THEN ending ELSE <<x[i]>>])

\* A line as process_line works on it: no CR, and one LF, its last byte.
WellEnded(line) ==
    /\ line # <<>>
    /\ Last(line) = "\n"
    /\ \A i \in 1..(Len(line) - 1) : ~is_line_end_char(line[i])

\* C12: CRLF or a lone CR in place of each LF line end of an input leaves
\* the lines process_line works on as they were, each with no CR and one LF,
\* its last byte, and leaves the tree with its sourcepos as it was.  (The
\* inputs are those of parse_document, fed in one call; no front matter
\* delimiter is configured.)
C12_LineEnds ==
    /\ \A i \in DOMAIN handed : WellEnded(handed[i])
    /\ Done =>
          LET lf == OneCall(Whole, options)
              crlf == OneCall(WithLineEnds(Whole, <<"\r", "\n">>), options)
              cr == OneCall(WithLineEnds(Whole, <<"\r">>), options)
          IN /\ crlf.handed = lf.handed /\ crlf.nodes = lf.nodes
             /\ cr.handed = lf.handed /\ cr.nodes = lf.nodes
             /\ Len(fed) = 1 => handed = lf.handed /\ nodes = lf.nodes

\* An input of three lines fed in one call, two of them ended by a LF of
\* their own and one by CRLF, with a block quote on the way.
C12_ThreeLines ==
    /\ Done
    /\ Len(fed) = 1
    /\ Cardinality({i \in DOMAIN Whole : LoneLF(Whole, i)}) = 2
    /\ Len(handed) = 3
    /\ WithLineEnds(Whole, <<"\r">>) # Whole
    /\ \E n \in DOMAIN nodes : Kind(nodes, n) = "BlockQuote"

\* C13: however the input is cut into the fragments given to feed, empty
\* fragments and a cut between the CR and the LF of a CRLF included, the
\* lines process_line has worked on after finish are those of the whole
\* input fed in one call; a LF after a CR that ended an earlier fragment
\* makes no blank line of its own.  (No front matter delimiter is
\* configured.)
C13_FragmentsAsOneCall ==
    (Done /\ options.front_matter_delimiter = <<>>)
       => handed = OneCall(Whole, options).handed

\* The input with U+FFFD in place of each NUL byte.
WithoutNUL(x) ==
    Flatten([i \in DOMAIN x |->
                IF x[i] = NUL THEN REPLACEMENT_CHARACTER ELSE <<x[i]>>])

\* The fragments fed one after the other, none of them with eof, then finish.
RECURSIVE FeedAll(_, _, _)
FeedAll(s, buf, frags) ==
    IF frags = <<>> THEN [s |-> s, linebuf |-> buf]
    ELSE LET f == Call("feed", <<s, buf, Head(frags), FALSE>>)
         IN FeedAll(f.s, f.linebuf, Tail(frags))

ManyCalls(frags, opts) ==
    LET f == FeedAll(Start(opts), <<>>, frags)
        hash == CHOOSE h \in HashOrders : TRUE
    IN Call("finish", <<f.s, f.linebuf, hash, hash>>)

\* C14: process_line works on no NUL byte: the lines of an input are those
\* of the input with U+FFFD written in place of each NUL, so that the
\* U+FFFD stands where the NUL stood and the bytes around the NUL, up to
\* the line ends on both sides, are in the same line; also with the NUL
\* the first or the last byte of the input or of a fragment.  (No front
\* matter delimiter is configured.)
C14_ReplacementCharacter ==
    /\ \A i \in DOMAIN handed : \A j \in DOMAIN handed[i] : handed[i][j] # NUL
    /\ Done =>
          /\ handed = ManyCalls([i \in DOMAIN fed |-> WithoutNUL(fed[i])],
                                options).handed
          /\ OneCall(Whole, options).handed
                = OneCall(WithoutNUL(Whole), options).handed

\* An input with a NUL as its first byte and one as its last, in one line
\* with the byte between them.
C14_FirstAndLast ==
    /\ Done
    /\ Whole = <<NUL, "a", "a", NUL>>
    /\ handed = << REPLACEMENT_CHARACTER \o <<"a", "a">>
                    \o REPLACEMENT_CHARACTER \o <<"\n">> >>

\* C15: after the parse every CodeBlock and every HtmlBlock of the tree has
\* an empty content: finalization has moved its text to literal, in
\* whatever container the block is.
C15_ContentInLiteral ==
    Done => \A n \in FinalTree :
               Kind(nodes, n) \in {"CodeBlock", "HtmlBlock"}
                  => nodes[n].content = <<>>

\* The blocks of the final tree, the FrontMatter among them: its nodes
\* that are no inlines.
FinalBlocks ==
    {n \in FinalTree : block(Kind(nodes, n)) \/ Kind(nodes, n) = "FrontMatter"}

\* A position is before another: an earlier line, or an earlier column of
\* the same line.
Precedes(p, q) == p.line < q.line \/ (p.line = q.line /\ p.column < q.column)

\* C16: after the parse the sourcepos of every block of the tree, the
\* Document and the FrontMatter included, is 1-based and in order: it
\* starts at a line >= 1 and a column >= 1 and does not end before it
\* starts.
C16_SourceposOrdered ==
    Done => \A n \in FinalBlocks :
               LET sp == nodes[n].sourcepos
               IN /\ sp.start.line >= 1
                  /\ sp.start.column >= 1
                  /\ ~Precedes(sp.end, sp.start)

\* The sourcepos of p spans that of n.
Spans(p, n) ==
    /\ ~Precedes(nodes[n].sourcepos.start, nodes[p].sourcepos.start)
    /\ ~Precedes(nodes[p].sourcepos.end, nodes[n].sourcepos.end)

\* C17: with description lists disabled, after the parse the sourcepos of
\* the parent of every block of the tree spans that of the block: the
\* parent starts no later and ends no earlier than its child.
C17_ParentSpansChild ==
    (Done /\ ~options.description_lists)
       => \A n \in FinalBlocks :
             parent_of(nodes, n) # 0 => Spans(parent_of(nodes, n), n)

\* C18: after the parse the Document starts at 1:1 and ends at the last
\* line process_line has worked on, in the last column of that line, the
\* length of the line without its line end.
C18_DocumentSourcepos ==
    Done =>
       LET sp == nodes[ROOT].sourcepos
           L == Len(handed)
           C == IF L = 0 THEN 0 ELSE Len(handed[L]) - 1
       IN /\ sp.start = [line |-> 1, column |-> 1]
          /\ sp.end = [line |-> L, column |-> C]

\* A Document of three lines, the last with text, and a block quote in it.
C18_ThreeLineDocument ==
    /\ Done
    /\ Len(handed) = 3
    /\ Len(handed[3]) >= 2
    /\ nodes[ROOT].sourcepos.end = [line |-> 3, column |-> Len(handed[3]) - 1]
    /\ \E n \in FinalTree : Kind(nodes, n) = "BlockQuote"

\* The bytes feed has split off as front matter: those of the FrontMatter
\* children of the Document.
RECURSIVE FrontMatterBytes(_)
FrontMatterBytes(children) ==
    IF children = <<>> THEN 0
    ELSE (IF Kind(nodes, Head(children)) = "FrontMatter"
          THEN Len(nodes[Head(children)].value.literal) ELSE 0)
         + FrontMatterBytes(Tail(children))

\* C19: after every call of feed total_size is the sum of the lengths of
\* the fragments fed so far less the bytes split off as front matter, or
\* usize::MAX if that is larger: the addition saturates and does not wrap
\* around, and total_size never decreases.
C19_TotalSizeSaturates ==
    /\ [](parser.total_size
             = Min(Len(Whole) - FrontMatterBytes(nodes[ROOT].children), USIZE_MAX))
    /\ [][parser'.total_size >= parser.total_size]_vars

\* Three fragments, the first with front matter and a byte after it, that
\* bring total_size to usize::MAX with the third.
C19_Saturated ==
    /\ Len(fed) = 3
    /\ FrontMatterBytes(nodes[ROOT].children) > 0
    /\ Len(fed[1]) + Len(fed[2]) - FrontMatterBytes(nodes[ROOT].children) < USIZE_MAX
    /\ Len(Whole) - FrontMatterBytes(nodes[ROOT].children) > USIZE_MAX
    /\ parser.total_size = USIZE_MAX

\* C19 as the specification has it: total_size is the sum of the lengths of
\* all the fragments fed so far, or usize::MAX if the sum is larger.
C19_AllBytesCounted == parser.total_size = Min(Len(Whole), USIZE_MAX)

\* The Paragraphs opened during the parse, those taken out of the tree
\* among them.
AllParagraphs == {n \in DOMAIN nodes : Kind(nodes, n) = "Paragraph"}

\* The bytes of the reference definitions at the head of a content buffer.
LeadingDefinitions(n) ==
    ResolveLoop([State EXCEPT !.defs = <<>>], nodes[n].content, 0,
                nodes[n].sourcepos.start.line).seeked

\* C20: after the parse every Paragraph that was opened is closed, no
\* reference definition is left at the head of its content and every
\* definition taken from it is in the reference map under its label, and
\* the Paragraph is detached from its parent if and only if the content
\* left is blank.
C20_ParagraphsFinalized ==
    Done =>
       /\ \A n \in AllParagraphs :
             /\ ~nodes[n].open
             /\ LeadingDefinitions(n) = 0
             /\ parent_of(nodes, n) # 0 <=> ~is_blank(nodes[n].content)
       /\ \A i \in DOMAIN defs :
             defs[i].label # <<>> => defs[i].label \in DOMAIN refmap

\* C21 as the specification has it: a node that finalization has closed is
\* open at no later step of the parse.
C21_ClosedForGood ==
    [][\A n \in DOMAIN nodes : ~nodes[n].open => ~nodes'[n].open]_vars

\* The nodes the line just worked on has reopened.
Reopened == {events[i].node : i \in {j \in DOMAIN events : events[j].ev = "reopen"}}

\* C21: a node that finalization has closed stays closed, but for a
\* DescriptionList: the details marker after a Paragraph that follows the
\* closed list reopens the list, to give it one more item.
C21_ClosedButReopened ==
    [][\A n \in DOMAIN nodes :
          (~nodes[n].open /\ nodes'[n].open)
             => Kind(nodes, n) = "DescriptionList" /\ n \in Reopened']_vars

\* A DescriptionList that was closed and has been reopened by the line,
\* and has got its second item.
C21_ListReopened ==
    \E n \in Reopened :
       /\ Kind(nodes, n) = "DescriptionList"
       /\ Len(nodes[n].children) = 2
       /\ ~nodes[first_child(nodes, n)].open

\* The nodes the step just taken has finalized, and the entries of its log
\* that are calls of add_line or finalize.
Finalized == {events[i].node : i \in {j \in DOMAIN events : events[j].ev = "finalize"}}

Asserted == {i \in DOMAIN events : events[i].ev \in {"add_line", "finalize"}}

\* C22 as the specification has it: no node is finalized twice.
C22_FinalizedOnce == \A n \in DOMAIN nodes : nodes[n].finalized <= 1

\* C22: add_line is called on open nodes only, the lazy continuation, on
\* self.current, included, and finalize on open nodes only: neither
\* assert!(ast.open) fails.  The one node that is finalized more than once
\* is a DescriptionList, reopened for each item after its first.
C22_OpenWhenAsserted ==
    /\ \A i \in Asserted : events[i].open
    /\ \A i \in DOMAIN events :
          events[i].ev = "lazy"
             => /\ i < Len(events)
                /\ events[i + 1].ev = "add_line"
                /\ events[i + 1].node = events[i].node
                /\ events[i + 1].open
    /\ \A n \in DOMAIN nodes :
          /\ (block(Kind(nodes, n)) /\ ~nodes[n].open) => nodes[n].finalized >= 1
          /\ nodes[n].finalized > 1
                => /\ Kind(nodes, n) = "DescriptionList"
                   /\ nodes[n].finalized <= Len(nodes[n].children)

\* A DescriptionList of two items finalized for the second time, at the
\* end of a document, with a Paragraph of a whole line for a term.
C22_FinalizedAgain ==
    /\ Done
    /\ \E n \in Finalized :
          /\ Kind(nodes, n) = "DescriptionList"
          /\ nodes[n].finalized = 2
          /\ Len(nodes[n].children) = 2
    /\ \E n \in DOMAIN nodes :
          Kind(nodes, n) = "Paragraph" /\ Len(nodes[n].content) > 2

\* C23: closing goes from the deepest open block upward: whenever a block
\* is closed, the blocks among its children are closed, and so all the
\* blocks below it.
C23_DeepestFirst ==
    \A n \in DOMAIN nodes :
       (block(Kind(nodes, n)) /\ ~nodes[n].open)
          => \A i \in DOMAIN nodes[n].children :
                block(Kind(nodes, nodes[n].children[i]))
                   => ~nodes[nodes[n].children[i]].open

\* The nodes the line just worked on has closed by their own closing
\* fence, and those it has added text to.
FenceClosed ==
    {events[i].node : i \in {j \in DOMAIN events : events[j].ev = "fence_close"}}

LineAdded == {events[i].node : i \in {j \in DOMAIN events : events[j].ev = "add_line"}}

\* C24: a block that is there and open before a line, and that the line
\* finalizes without being its closing fence and without adding to it,
\* because the line does not continue it, ends at the line before, in the
\* last column of that line.
C24_EndsOnLineBefore ==
    [][phase' = "feed" =>
          \A n \in Finalized' :
             (n \in DOMAIN nodes /\ n \notin FenceClosed' /\ n \notin LineAdded')
                => nodes'[n].sourcepos.end
                      = LineColumn(parser.line_number, parser.last_line_length)]_vars

\* The fenced CodeBlocks open before the line.
OpenFenced ==
    {n \in DOMAIN nodes :
        Kind(nodes, n) = "CodeBlock" /\ nodes[n].value.fenced /\ nodes[n].open}

\* The line starts, at byte fn and at this indent, with a closing fence of
\* the block n: at least fence_length times its fence character, then
\* spaces and tabs only up to the line end.
IsClosingFence(line, fn, indent, n) ==
    LET c == nodes[n].value.fence_char
        run == {k \in 0..(Len(line) - fn) :
                   \A i \in fn..(fn + k - 1) : At(line, i) = c}
        len == CHOOSE k \in run : \A m \in run : m <= k
    IN /\ indent <= 3
       /\ len >= 3
       /\ len >= nodes[n].value.fence_length
       /\ \A i \in (fn + len)..(Len(line) - 1) :
             is_space_or_tab(At(line, i)) \/ is_line_end_char(At(line, i))

\* The entries of the log of the line just worked on that open a block or
\* add text to one.
OpenedOrAdded == {i \in DOMAIN events : events[i].ev \in {"open", "add_line", "add_child"}}

\* C25 as the specification has it: the fenced CodeBlock that is open, the
\* current node, is closed by the next line if and only if the line starts
\* with a closing fence of the block at an indent of 3 at most.
C25_ClosedByFenceOnly ==
    [][(phase' = "feed" /\ parser.current \in OpenFenced)
          => LET n == parser.current
                 line == events'[1].line
                 s == find_first_nonspace([State EXCEPT !.pr.offset = 0, !.pr.column = 0,
                                                        !.pr.first_nonspace = 0], line)
             IN ~nodes'[n].open
                   <=> IsClosingFence(line, s.pr.first_nonspace, s.pr.indent, n)]_vars

\* C25: a line that continues all the blocks around an open fenced
\* CodeBlock closes the block if and only if what is left of it starts, at
\* an indent of 3 at most, with a closing fence of the block; such a line
\* opens no block and adds no text.  From every other such line the block
\* takes what is left after the leading spaces and tabs, fence_offset columns
\* of them at most; of a tab that is taken in part, the columns not taken
\* go to the block as spaces.
C25_FenceClosesOrAbsorbs ==
    [][phase' = "feed" =>
          \A n \in OpenFenced : \A i \in DOMAIN events' :
             (events'[i].ev = "prefix" /\ events'[i].node = n)
                => LET e == events'[i]
                       line == events'[1].line
                       before == IF events'[i - 1].ev = "prefix"
                                 THEN events'[i - 1].offset ELSE 0
                       k == e.offset - before
                       old == nodes[n].content
                       new == nodes'[n].content
                   IN IF IsClosingFence(line, e.fn, e.indent, n)
                      THEN /\ ~e.ok
                           /\ ~nodes'[n].open
                           /\ n \in FenceClosed'
                           /\ OpenedOrAdded' = {}
                      ELSE /\ e.ok
                           /\ nodes'[n].open
                           /\ k <= nodes[n].value.fence_offset
                           /\ \A j \in before..(e.offset - 1) : is_space_or_tab(At(line, j))
                           /\ (k < nodes[n].value.fence_offset /\ ~e.tab)
                                 => ~is_space_or_tab(At(line, e.offset))
                           /\ IF e.tab
                              THEN \E pad \in 1..3 :
                                      new = old \o Rep(<<" ">>, pad) \o From(line, e.offset + 1)
                              ELSE new = old \o From(line, e.offset)]_vars

\* A fenced CodeBlock opened one column in, which took a line indented by
\* two columns less the one of its fence, is closed by a fence.
C25_ClosedAfterAbsorbing ==
    \E n \in FenceClosed :
       /\ n \in DOMAIN nodes
       /\ ~nodes[n].open
       /\ nodes[n].value.fence_offset = 1
       /\ nodes[n].value.literal = <<" ", "a", "\n">>

\* The entries of the log of the line just worked on that tell of the
\* prefix of an open block of this kind.
PrefixesOf(kind) ==
    {i \in DOMAIN events : events[i].ev = "prefix" /\ events[i].kind = kind}

\* The byte offset the descent was at when it came to entry i of the log.
OffsetBefore(i) ==
    IF i > 1 /\ events[i - 1].ev = "prefix" THEN events[i - 1].offset ELSE 0

\* What is left of the line at entry i of the log is blank: spaces and tabs
\* only up to the line end.
BlankAt(i) == is_line_end_char(At(events[1].line, events[i].fn))

\* C26: an open FootnoteDefinition is continued by a line if and only if
\* the line has an indent of 4 at least, or what is left of the line after
\* the prefixes of the blocks around is blank.
C26_ContinuedWhenBlank ==
    \A i \in PrefixesOf("FootnoteDefinition") :
       events[i].ok <=> (events[i].indent >= 4 \/ BlankAt(i))

\* C27: an open list Item is continued by a line if and only if the indent
\* is marker_offset + padding at least, and that many columns are then
\* consumed, or what is left of the line is blank and the Item has a child.
C27_ItemContinued ==
    [][phase' = "feed" =>
          \A i \in DOMAIN events' :
             (events'[i].ev = "prefix" /\ events'[i].kind = "Item")
                => LET e == events'[i]
                       nl == nodes[e.node].value.nl
                       width == nl.marker_offset + nl.padding
                       blank == is_line_end_char(At(events'[1].line, e.fn))
                   IN /\ e.ok <=> (e.indent >= width
                                      \/ (blank /\ nodes[e.node].children # <<>>))
                      /\ e.indent >= width => e.column = e.column0 + width]_vars

\* The Item of a marker line without content, closed by the blank line that
\* comes next.
C27_EmptyItemClosed ==
    \E i \in PrefixesOf("Item") :
       /\ ~events[i].ok
       /\ BlankAt(i)
       /\ nodes[events[i].node].children = <<>>
       /\ ~nodes[events[i].node].open

\* The entries of the log of the line just worked on that open a block.
Opens == {i \in DOMAIN events : events[i].ev = "open"}

\* The container an entry of Opens found: the block opened before it on the
\* line, or the last block the line has matched.
ContainerAt(i) ==
    LET earlier == {j \in Opens : j < i}
    IN IF earlier = {} THEN events[1].last_matched
       ELSE events[CHOOSE j \in earlier : \A k \in earlier : k <= j].node

\* Node b comes right after node a among the children of the parent of a.
NextSibling(ns, a, b) ==
    LET sibs == ns[ns[a].parent].children
    IN \E k \in 1..(Len(sibs) - 1) : sibs[k] = a /\ sibs[k + 1] = b

\* The same list_type, delimiter and bullet_char.
SameMarkers(a, b) ==
    /\ a.list_type = b.list_type
    /\ a.delimiter = b.delimiter
    /\ a.bullet_char = b.bullet_char

\* C28: an Item opened while the container is a List goes to that List if
\* and only if list_type, delimiter and bullet_char are the same; if not,
\* the List is finalized and a new List, with the Item as first child,
\* comes right after it.  In any other container the Item comes first in a
\* new List.
C28_ItemJoinsMatchingList ==
    [][phase' = "feed" =>
          \A i \in Opens' :
             events'[i].kind = "Item"
                => LET item == events'[i].node
                       list == nodes'[item].parent
                       cont == ContainerAt(i)'
                       created == /\ list \notin DOMAIN nodes
                                  /\ Kind(nodes', list) = "List"
                                  /\ nodes'[list].children[1] = item
                   IN IF cont \in DOMAIN nodes /\ Kind(nodes, cont) = "List"
                      THEN IF SameMarkers(nodes'[item].value.nl, nodes[cont].value.nl)
                           THEN list = cont /\ nodes'[cont].finalized = 0
                           ELSE /\ created
                                /\ ~nodes'[cont].open
                                /\ nodes'[cont].finalized = 1
                                /\ NextSibling(nodes', cont, list)
                      ELSE created]_vars

\* A List of three items, closed by a marker with another bullet character,
\* and the new List right after it.
C28_SecondList ==
    \E i \in Opens : \E old \in DOMAIN nodes :
       /\ events[i].kind = "Item"
       /\ Kind(nodes, old) = "List"
       /\ Len(nodes[old].children) = 3
       /\ ~nodes[old].open
       /\ NextSibling(nodes, old, nodes[events[i].node].parent)
       /\ nodes[old].value.nl.bullet_char # nodes[events[i].node].value.nl.bullet_char
       /\ nodes[old].value.nl.list_type = "Bullet"
       /\ nodes[events[i].node].value.nl.list_type = "Bullet"

\* The Lists the step just taken has finalized.
FinalizedLists == {n \in Finalized : n \in DOMAIN nodes /\ Kind(nodes, n) = "List"}

\* Some item of List n other than the last has last_line_blank.
ItemBlank(n) ==
    LET items == nodes[n].children
    IN \E k \in 1..(Len(items) - 1) : nodes[items[k]].last_line_blank

\* Some block of an item of List n that is not the last block of its item
\* ends with a blank line.
InnerBlockBlank(n) ==
    \E item \in Range(nodes[n].children) :
       LET subs == nodes[item].children
       IN \E j \in 1..(Len(subs) - 1) : ends_with_blank_line(nodes, subs[j])

\* The last block of an item of List n other than the last item ends with a
\* blank line.
LastBlockBlank(n) ==
    LET items == nodes[n].children
    IN \E k \in 1..(Len(items) - 1) :
          LET subs == nodes[items[k]].children
          IN subs # <<>> /\ ends_with_blank_line(nodes, Last(subs))

\* C29 as the specification has it: a finalized List is loose if and only
\* if an item other than the last has last_line_blank, or a block of an item
\* that is not the last block of the item ends with a blank line.
C29_LooseByInnerBlocks ==
    \A n \in FinalizedLists :
       ~nodes[n].value.nl.tight <=> (ItemBlank(n) \/ InnerBlockBlank(n))

\* C29: a finalized List is loose if and only if an item other than the
\* last has last_line_blank, or a block of an item ends with a blank line
\* and is not the last block of the last item.
C29_LooseByBlankInside ==
    \A n \in FinalizedLists :
       ~nodes[n].value.nl.tight
          <=> (ItemBlank(n) \/ InnerBlockBlank(n) \/ LastBlockBlank(n))

\* A finalized List that is loose for the last block of its first item
\* alone: indented code that ends with a blank line.
C29_LooseByLastBlock ==
    \E n \in FinalizedLists :
       /\ ~nodes[n].value.nl.tight
       /\ LastBlockBlank(n)
       /\ ~ItemBlank(n)
       /\ ~InnerBlockBlank(n)
       /\ Len(nodes[n].children) = 2
       /\ Kind(nodes, Last(nodes[nodes[n].children[1]].children)) = "CodeBlock"

\* The column byte off of the line starts at: a tab goes to the next
\* multiple of 4, every other byte takes one column.
RECURSIVE ColumnOf(_, _)
ColumnOf(line, off) ==
    IF off = 0 THEN 0
    ELSE LET c == ColumnOf(line, off - 1)
         IN IF At(line, off - 1) = "\t" THEN c + (4 - (c % 4)) ELSE c + 1

\* An offset and a column inside a tab of the line: the byte at the offset
\* is a tab, and the column is after the start of the tab, before its end,
\* and no multiple of 4.
InsideTab(line, offset, column) ==
    /\ At(line, offset) = "\t"
    /\ column % 4 # 0
    /\ ColumnOf(line, offset) < column
    /\ column < ColumnOf(line, offset + 1)

\* The entries of the log of the line just worked on that hold a position
\* in the line.
Positions ==
    {i \in DOMAIN events :
        \/ events[i].ev \in {"prefix", "open"}
        \/ events[i].ev = "add_line" /\ events[i].open}

\* C30 as the specification has it: between two lines
\* partially_consumed_tab is set only where the offset is on a tab and the
\* column is no multiple of 4.
C30_SetInsideTabOnly ==
    (phase = "feed" /\ events # <<>> /\ parser.partially_consumed_tab)
       => /\ At(events[1].line, parser.offset) = "\t"
          /\ parser.column % 4 # 0

\* C30: wherever partially_consumed_tab is set in the course of a line, the
\* offset is on a tab and the column inside it; an add_line that finds it
\* set skips the tab and puts 4 - (column mod 4) spaces first, which with
\* the columns taken from the tab are the columns of the whole tab.  After
\* the line the flag is set only inside a tab or behind the tab that
\* add_line has skipped.
C30_PartialTabPadded ==
    [][(phase' = "feed" /\ events' # <<>>) =>
          LET line == events'[1].line
              added == {i \in Positions' : events'[i].ev = "add_line"}
          IN /\ \A i \in Positions' :
                   events'[i].tab
                      => InsideTab(line, events'[i].offset, events'[i].column)
             /\ \A i \in added :
                   LET e == events'[i]
                       old == IF e.node \in DOMAIN nodes THEN nodes[e.node].content ELSE <<>>
                       start == ColumnOf(line, e.offset)
                       spaces == 4 - (e.column % 4)
                   IN IF e.tab
                      THEN /\ nodes'[e.node].content
                                 = old \o Rep(<<" ">>, spaces) \o From(line, e.offset + 1)
                           /\ (e.column - start) + spaces = ColumnOf(line, e.offset + 1) - start
                           /\ parser'.offset = e.offset + 1
                      ELSE parser'.offset = e.offset
             /\ parser'.partially_consumed_tab
                   => \/ InsideTab(line, parser'.offset, parser'.column)
                      \/ \E i \in added :
                            events'[i].tab /\ parser'.offset = events'[i].offset + 1]_vars

\* A block has taken a line behind a tab of which 1 column was consumed:
\* 3 spaces stand for the rest of the tab.
C30_ThreeSpaces ==
    \E i \in Positions :
       /\ events[i].ev = "add_line"
       /\ events[i].tab
       /\ events[i].column % 4 = 1
       /\ nodes[events[i].node].content = <<"\n", " ", " ", " ", "a", "\n">>

\* The scan for a thematic break from byte fn of the line, with no cache:
\* the byte is '*', '_' or '-', only that byte, spaces and tabs follow up to
\* the line end, and the byte is there 3 times at least.
UncachedBreak(line, fn) ==
    LET c == At(line, fn)
        others == {j \in fn..(Len(line) - 1) : At(line, j) \notin {c, " ", "\t"}}
        stop == CHOOSE j \in others : \A k \in others : j <= k
    IN /\ fn < Len(line)
       /\ c \in {"*", "_", "-"}
       /\ others # {}
       /\ At(line, stop) \in {"\r", "\n"}
       /\ Cardinality({j \in fn..(stop - 1) : At(line, j) = c}) >= 3

\* The entries of the log of the line just worked on where open_new_blocks
\* has come to the thematic break, on a line that is not indented and in a
\* container other than a Paragraph the line does not continue.
BreakAsked == {i \in DOMAIN events : events[i].ev = "thematic" /\ events[i].asked}

\* C31: where the scan is left out for the kill position, the scan from
\* that first_nonspace finds no thematic break; a ThematicBreak is opened
\* exactly where that scan finds one.
C31_CacheKeepsResult ==
    /\ \A i \in BreakAsked :
          LET e == events[i]
              line == events[1].line
          IN /\ ~e.scanned => (e.kill > e.fn /\ ~UncachedBreak(line, e.fn))
             /\ e.found <=> UncachedBreak(line, e.fn)
             /\ e.found <=> \E j \in (i + 1)..Len(events) :
                               /\ events[j].ev = "open"
                               /\ events[j].kind = "ThematicBreak"
                               /\ events[j].fn = e.fn
    /\ \A j \in DOMAIN events :
          (events[j].ev = "open" /\ events[j].kind = "ThematicBreak")
             => \E i \in BreakAsked : events[i].found /\ events[i].fn = events[j].fn

\* The scan is left out for a kill position behind two list markers, and
\* the line goes on with text.
C31_ScanSkipped ==
    \E i \in BreakAsked :
       /\ ~events[i].scanned
       /\ events[i].fn = 4
       /\ events[i].kill = 6

\* The nodes the line just worked on has made setext Headings of.
SetextNodes == {events[i].node : i \in {j \in DOMAIN events : events[j].ev = "setext"}}

\* From byte fn on the line is a setext underline: a run of '=' or of '-',
\* then spaces and tabs only up to the line end.
Underline(line, fn) ==
    LET c == At(line, fn)
        others == {j \in fn..(Len(line) - 1) : At(line, j) # c}
        stop == CHOOSE j \in others : \A k \in others : j <= k
    IN /\ fn < Len(line)
       /\ c \in {"=", "-"}
       /\ others # {}
       /\ \A j \in stop..(Len(line) - 1) :
             is_space_or_tab(At(line, j)) \/ is_line_end_char(At(line, j))
       /\ is_line_end_char(At(line, Len(line) - 1))

\* C32: without philomena, a setext underline that follows an open
\* Paragraph makes a Heading of that node, of level 1 for '=' and 2 for '-',
\* if and only if content is left after the leading reference definitions
\* of the Paragraph; if none is left the definitions are in the map all the
\* same, the node stays a Paragraph and takes the underline as its text.
C32_SetextNeedsContent ==
    [][(phase' = "feed" /\ ~options.philomena) =>
          LET line == events'[1].line
              p == events'[1].last_matched
              last == Cardinality({i \in DOMAIN events' : events'[i].ev = "prefix"}) + 1
              e == events'[last]
              r == resolve_reference_link_definitions(State, p)
          IN /\ \A n \in SetextNodes' : n = p
             /\ (/\ p \in DOMAIN nodes
                 /\ Kind(nodes, p) = "Paragraph"
                 /\ nodes[p].open
                 /\ last > 1
                 /\ e.node = p /\ e.ok
                 /\ e.indent < 4
                 /\ Underline(line, e.fn))
                   => IF r.has_content
                      THEN /\ p \in SetextNodes'
                           /\ nodes'[p].value
                                 = [kind |-> "Heading", setext |-> TRUE,
                                    level |-> IF At(line, e.fn) = "=" THEN 1 ELSE 2]
                           /\ nodes'[p].parent = nodes[p].parent
                           /\ nodes'[p].content # <<>>
                           /\ Len(nodes') = Len(nodes)
                      ELSE /\ SetextNodes' = {}
                           /\ Kind(nodes', p) = "Paragraph"
                           /\ nodes'[p].open
                           /\ nodes'[p].content = From(line, e.fn)
                           /\ refmap' = r.s.refmap
                           /\ refmap' # refmap
                           /\ Len(nodes') = Len(nodes)
             /\ \A n \in SetextNodes' :
                   /\ n \in DOMAIN nodes
                   /\ Kind(nodes, n) = "Paragraph"
                   /\ Underline(line, e.fn)
                   /\ r.has_content]_vars

\* A Paragraph of one reference definition and nothing else has taken the
\* underline that follows it as its text; the definition is in the map.
C32_UnderlineAsText ==
    /\ phase = "feed"
    /\ ~options.philomena
    /\ DOMAIN refmap = {<<"a">>}
    /\ \E n \in DOMAIN nodes :
          /\ Kind(nodes, n) = "Paragraph"
          /\ nodes[n].open
          /\ nodes[n].content = <<"=", "=", "=", "\n">>
          /\ nodes[n].sourcepos.start.line = 1
          /\ parser.line_number = 2

\* The tree as finalize_document has left it, before the Text nodes are
\* post-processed.
AfterFootnotes ==
    IF Logged("finalize_document") = {} THEN nodes
    ELSE events[CHOOSE j \in Logged("finalize_document") : TRUE].nodes

\* The normalized names of all the FootnoteDefinitions there are.
DefinedNames ==
    {normalize_label(AfterFootnotes[d].value.name, FALSE) :
        d \in {n \in DOMAIN AfterFootnotes : Kind(AfterFootnotes, n) = "FootnoteDefinition"}}

\* The nodes whose content the inline pass has gone through, with what it
\* has found there.
Inlined ==
    {n \in DOMAIN AfterFootnotes :
        contains_inlines(Kind(AfterFootnotes, n)) /\ AfterFootnotes[n].finalized > 0}

\* C33: with footnotes, after process_footnotes every "[^name]" of the
\* text whose name no FootnoteDefinition has is a Text node "[^name]" at the
\* place of the reference, and every FootnoteReference left has the name of
\* a definition, an ix of 1 at least and a ref_num of 1 at least.
C33_NoDanglingReference ==
    (Done /\ panic = "" /\ options.footnotes) =>
       LET tree == AfterFootnotes
       IN /\ \A n \in DOMAIN tree :
                Kind(tree, n) = "FootnoteReference"
                   => /\ tree[n].value.ix >= 1
                      /\ tree[n].value.ref_num >= 1
                      /\ normalize_label(tree[n].value.name, FALSE) \in DefinedNames
          /\ \A n \in Inlined :
                LET toks == InlineTokens(rtrim(tree[n].content), TRUE, refmap)
                    kids == tree[n].children
                IN /\ Len(kids) = Len(toks)
                   /\ \A k \in DOMAIN toks :
                         IF toks[k].value.kind = "FootnoteReference"
                         THEN IF normalize_label(toks[k].value.name, FALSE) \in DefinedNames
                              THEN TRUE
                              ELSE tree[kids[k]].value
                                      = [kind |-> "Text",
                                         literal |-> <<"[", "^">> \o toks[k].value.name \o <<"]">>]
                         ELSE tree[kids[k]].value = toks[k].value

\* A document ends with a reference that is bound and a Text "[^b]" where a
\* reference without a definition was.
C33_ReferenceAsText ==
    /\ Done /\ panic = "" /\ options.footnotes
    /\ \E n \in DOMAIN AfterFootnotes :
          Kind(AfterFootnotes, n) = "FootnoteReference" /\ AfterFootnotes[n].value.ix = 1
    /\ \E n \in DOMAIN AfterFootnotes :
          /\ Kind(AfterFootnotes, n) = "Text"
          /\ AfterFootnotes[n].value.literal = <<"[", "^", "b", "]">>
          /\ "b" \notin {c[1] : c \in {x \in DefinedNames : x # <<>>}}

\* The nodes of the tree: those the root reaches.
InTree == Range(Preorder(nodes, ROOT))

\* C34: after postprocess_text_nodes no node of the tree has two adjacent
\* children that are both Text nodes.
C34_NoAdjacentTexts ==
    (Done /\ panic = "") =>
       \A n \in InTree :
          \A k \in 1..(Len(nodes[n].children) - 1) :
             ~(/\ Kind(nodes, nodes[n].children[k]) = "Text"
               /\ Kind(nodes, nodes[n].children[k + 1]) = "Text")

\* The literals of the Text t and of the Text siblings that follow it without
\* a gap, one after the other.
RECURSIVE MergedText(_, _)
MergedText(tree, t) ==
    LET ns == next_sibling(tree, t)
    IN tree[t].value.literal
         \o (IF ns # 0 /\ Kind(tree, ns) = "Text" THEN MergedText(tree, ns) ELSE <<>>)

\* The first child of the first child of the node n, 0 if there is none.
FirstGrandchild(tree, n) ==
    IF first_child(tree, n) = 0 THEN 0 ELSE first_child(tree, first_child(tree, n))

\* The length of the task marker the text starts with, 0 if it starts with
\* none: "[", a symbol, "]", and a space unless the text ends there.
MarkerLen(text, relaxed) ==
    IF /\ Len(text) >= 3
       /\ text[1] = "[" /\ text[3] = "]"
       /\ text[2] \notin {"\n", "\r"}
       /\ (relaxed \/ text[2] \in {" ", "x", "X"})
       /\ (Len(text) = 3 \/ text[4] \in {" ", "\t", "\n", "\r"})
    THEN Min(4, Len(text)) ELSE 0

\* The Items that have a task marker at the start of the Text that is the first
\* child of the Paragraph that is their first child.
MarkedItems(tree) ==
    {n \in DOMAIN tree :
        /\ Kind(tree, n) = "Item"
        /\ first_child(tree, n) # 0
        /\ Kind(tree, first_child(tree, n)) = "Paragraph"
        /\ FirstGrandchild(tree, n) # 0
        /\ Kind(tree, FirstGrandchild(tree, n)) = "Text"
        /\ MarkerLen(MergedText(tree, FirstGrandchild(tree, n)),
                     options.relaxed_tasklist_matching) > 0}

\* C35: with tasklist enabled an Item is rewritten to TaskItem if and only if
\* a task marker is matched at the start of the Text that is the first child
\* of the Paragraph that is the first child of the Item, with a symbol ' ',
\* 'x' or 'X' unless relaxed_tasklist_matching; the marker is then taken off
\* the Text, the start columns of the Text and of the Paragraph advance by
\* its length, TaskItem holds None for ' ' and the symbol otherwise, and no
\* other node changes but for the joining of adjacent Texts.
C35_TaskItemIffMarker ==
    (Done /\ panic = "" /\ options.tasklist) =>
       LET tree == AfterFootnotes
           marked == MarkedItems(tree)
           paragraphs == {first_child(tree, n) : n \in marked}
           texts == {FirstGrandchild(tree, n) : n \in marked}
           cut(n) == IF n \in texts
                     THEN MarkerLen(MergedText(tree, n), options.relaxed_tasklist_matching)
                     ELSE 0
       IN /\ DOMAIN nodes = DOMAIN tree
          /\ \A n \in marked :
                LET text == MergedText(tree, FirstGrandchild(tree, n))
                IN nodes[n] = [tree[n] EXCEPT !.value =
                                  [kind |-> "TaskItem",
                                   symbol |-> IF text[2] = " " THEN <<>> ELSE <<text[2]>>]]
          /\ \A n \in paragraphs :
                /\ nodes[n].value = tree[n].value
                /\ nodes[n].sourcepos.end = tree[n].sourcepos.end
                /\ nodes[n].sourcepos.start.line = tree[n].sourcepos.start.line
                /\ nodes[n].sourcepos.start.column
                      = tree[n].sourcepos.start.column
                          + cut(CHOOSE x \in texts : tree[x].parent = n)
          /\ \A n \in DOMAIN tree :
                IF Kind(tree, n) = "Text"
                THEN IF Kind(tree, tree[n].parent) \in {"Link", "Image"}
                     THEN nodes[n] = tree[n]
                     ELSE IF previous_sibling(tree, n) # 0
                             /\ Kind(tree, previous_sibling(tree, n)) = "Text"
                     THEN nodes[n].parent = 0
                     ELSE /\ Kind(nodes, n) = "Text"
                          /\ nodes[n].parent = tree[n].parent
                          /\ nodes[n].value.literal = From(MergedText(tree, n), cut(n))
                          /\ nodes[n].sourcepos.start.line = tree[n].sourcepos.start.line
                          /\ nodes[n].sourcepos.start.column
                                = tree[n].sourcepos.start.column + cut(n)
                ELSE n \notin marked \cup paragraphs
                        => /\ nodes[n].value = tree[n].value
                           /\ nodes[n].sourcepos = tree[n].sourcepos
                           /\ nodes[n].parent = tree[n].parent

\* A document ends with a TaskItem of symbol 'x' whose text has lost the
\* marker, next to an Item that keeps its "[y]" as text, relaxed matching
\* being off.
C35_TaskItemAndPlainItem ==
    /\ Done /\ panic = "" /\ options.tasklist /\ ~options.relaxed_tasklist_matching
    /\ \E n \in InTree :
          /\ Kind(nodes, n) = "TaskItem"
          /\ nodes[n].value.symbol = <<"x">>
          /\ nodes[FirstGrandchild(nodes, n)].value.literal = <<"a">>
          /\ nodes[FirstGrandchild(nodes, n)].sourcepos.start.column = 7
    /\ \E n \in InTree :
          /\ Kind(nodes, n) = "Item"
          /\ FirstGrandchild(nodes, n) # 0
          /\ nodes[FirstGrandchild(nodes, n)].value.literal = <<"[", "y", "]", " ", "a">>

\* The nodes that are open.
OpenNodes == {n \in DOMAIN nodes : nodes[n].open}

\* C36: with multiline_block_quotes, description_lists and table disabled,
\* after every process_line the open nodes are exactly the root and the
\* nodes on the last-child chain from the root down to self.current: the
\* parent of every open node is open, every open node but the root is the
\* last child of its parent, and self.current is open.
C36_OpenChain ==
    (/\ phase = "feed" /\ panic = ""
     /\ ~options.multiline_block_quotes /\ ~options.description_lists /\ ~options.table)
       => /\ nodes[parser.current].open
          /\ OpenNodes = Ancestors(nodes, parser.current) \cup {parser.current}
          /\ \A n \in OpenNodes \ {ROOT} :
                /\ nodes[n].parent # 0
                /\ nodes[nodes[n].parent].open
                /\ last_child(nodes, nodes[n].parent) = n

\* After a line a Paragraph is open in an Item of a List in a BlockQuote,
\* and a block before it in the tree is closed.
C36_DeepChain ==
    /\ phase = "feed" /\ panic = ""
    /\ ~options.multiline_block_quotes /\ ~options.description_lists /\ ~options.table
    /\ Kind(nodes, parser.current) = "Paragraph"
    /\ {Kind(nodes, n) : n \in OpenNodes} = {"Document", "BlockQuote", "List", "Item", "Paragraph"}
    /\ \E n \in InTree : ~nodes[n].open /\ nodes[n].finalized > 0

\* The tree as process_footnotes has found it.
BeforeFootnotes ==
    IF Logged("process_footnotes") = {} THEN nodes
    ELSE events[CHOOSE j \in Logged("process_footnotes") : TRUE].nodes

\* The nodes of one kind, in document order, before process_footnotes.
InOrder(kind) ==
    SelectSeq(Preorder(BeforeFootnotes, ROOT), LAMBDA n : Kind(BeforeFootnotes, n) = kind)

\* The FootnoteDefinitions of the normalized name k, in document order.
DefinitionsOf(k) ==
    SelectSeq(InOrder("FootnoteDefinition"),
              LAMBDA d : normalize_label(BeforeFootnotes[d].value.name, FALSE) = k)

\* The FootnoteReferences of the normalized name k, in document order.
ReferencesOf(k) ==
    SelectSeq(InOrder("FootnoteReference"),
              LAMBDA r : normalize_label(BeforeFootnotes[r].value.name, FALSE) = k)

\* The normalized names that have several definitions and a reference.
BoundNames ==
    {k \in {normalize_label(BeforeFootnotes[d].value.name, FALSE) :
               d \in Range(InOrder("FootnoteDefinition"))} :
        Len(DefinitionsOf(k)) >= 2 /\ ReferencesOf(k) # <<>>}

\* Every reference of a name is bound to the last definition of the name in
\* document order: that definition is the one the Document keeps, under the
\* name the references have got, with all of them counted.
LastDefinitionBinds ==
    \A k \in BoundNames :
       LET d == Last(DefinitionsOf(k))
           refs == ReferencesOf(k)
       IN /\ d \in Range(AfterFootnotes[ROOT].children)
          /\ AfterFootnotes[d].value.total_references = Len(refs)
          /\ \A i \in DOMAIN refs :
                /\ Kind(AfterFootnotes, refs[i]) = "FootnoteReference"
                /\ AfterFootnotes[refs[i]].value.name = AfterFootnotes[d].value.name
                /\ AfterFootnotes[d].value.name
                      = normalize_label(BeforeFootnotes[d].value.name, TRUE)

\* Among the children of the Document there is one FootnoteDefinition per
\* normalized name at most.
OneDefinitionPerName ==
    \A a, b \in Range(AfterFootnotes[ROOT].children) :
       (/\ Kind(AfterFootnotes, a) = "FootnoteDefinition"
        /\ Kind(AfterFootnotes, b) = "FootnoteDefinition"
        /\ normalize_label(AfterFootnotes[a].value.name, FALSE)
              = normalize_label(AfterFootnotes[b].value.name, FALSE))
          => a = b

\* The references of one definition are numbered 1, 2, ... in preorder, up
\* to the total_references of the definition.
ReferencesNumbered ==
    \A d \in Range(AfterFootnotes[ROOT].children) :
       Kind(AfterFootnotes, d) = "FootnoteDefinition"
          => LET refs == ReferencesOf(normalize_label(AfterFootnotes[d].value.name, FALSE))
             IN /\ AfterFootnotes[d].value.total_references = Len(refs)
                /\ \A i \in DOMAIN refs : AfterFootnotes[refs[i]].value.ref_num = i

\* C37: with footnotes enabled, when several FootnoteDefinitions share a
\* normalized name, every reference with that name is bound to the last of
\* them in document order; the final tree holds at most one
\* FootnoteDefinition per normalized name among the children of the
\* Document, and the references of one definition receive ref_num 1, 2, ...,
\* total_references in preorder.
C37_LastDefinitionWins ==
    (Done /\ panic = "" /\ options.footnotes) =>
       /\ LastDefinitionBinds
       /\ OneDefinitionPerName
       /\ ReferencesNumbered

\* The pass of the loop of feed that starts at the byte b of the fragment.
FeedPass(str, eof, b) ==
    FeedStep([s |-> State, linebuf |-> linebuf, buffer |-> b, done |-> FALSE], str, eof)

\* Every pass of the loop of open_new_blocks on the last line that has not
\* left the loop has advanced the offset or created a node, no pass has moved
\* the offset back, and there are len(line) + 1 passes at most.
PassesAdvance ==
    \A i \in Logged("pass") :
       /\ ~events[i].left => (events[i].offset > events[i].offset0 \/ events[i].created > 0)
       /\ events[i].offset >= events[i].offset0
       /\ Cardinality(Logged("pass")) <= events[i].len + 1

\* C38: process_line terminates on every line: a pass of the loop of
\* open_new_blocks that does not leave the loop advances the byte offset or
\* creates a block, and the loop makes len(line) + 1 passes at most; a pass
\* of the loop of feed advances the buffer index, wherever in a fragment it
\* starts, and not beyond the end of the fragment, so that feed consumes all
\* the bytes of the fragment.
C38_LoopsAdvance ==
    panic = "" =>
       /\ PassesAdvance
       /\ phase = "feed" =>
             \A str \in ProgressFragments, eof \in BOOLEAN :
                \A b \in 0..(Len(str) - 1) :
                   LET r == FeedPass(str, eof, b)
                   IN ~r.done /\ r.buffer > b /\ r.buffer <= Len(str)

\* A line has made three passes of the loop of open_new_blocks, two of which
\* have opened a block and gone on, after feed has handed over the lines of
\* two fragments, the first of them of two lines.
C38_ThreePasses ==
    /\ panic = "" /\ phase = "feed"
    /\ Len(fed) = 2 /\ Len(handed) >= 3
    /\ Cardinality(Logged("pass")) = 3
    /\ Cardinality({i \in Logged("pass") : ~events[i].left /\ events[i].created > 0}) = 2

\* The log entries of the calls of find_first_nonspace on the last line: one
\* in every pass of check_open_blocks and of open_new_blocks, and one in
\* add_text_to_container; each has the offset and the column of the call and
\* the first_nonspace, first_nonspace_column and blank it has set.
Finds == {i \in DOMAIN events : events[i].ev \in {"prefix", "pass", "text"}}

\* The entry i has the first non-space byte at or after the offset, with
\* spaces and tabs only in between, and its column at or after the column.
FindSkipsSpaces(i, line) ==
    LET e == events[i]
    IN /\ e.offset0 <= e.fn
       /\ e.column0 <= e.fnc
       /\ \A k \in e.offset0..(e.fn - 1) : At(line, k) \in {" ", "\t"}

\* C39 as the specification has it: after every call of find_first_nonspace
\* offset <= first_nonspace <= len(line) - 1, column <= first_nonspace_column,
\* the bytes from offset to first_nonspace are spaces or tabs, and blank is
\* true exactly when the byte at first_nonspace is the line terminator.
C39_NonspaceInsideLine ==
    (panic = "" /\ Finds # {}) =>
       LET line == events[1].line
       IN \A i \in Finds :
             /\ FindSkipsSpaces(i, line)
             /\ events[i].fn <= Len(line) - 1
             /\ events[i].blank <=> is_line_end_char(At(line, events[i].fn))

\* C39: after every call of find_first_nonspace offset <= first_nonspace <=
\* len(line), column <= first_nonspace_column, the bytes from offset to
\* first_nonspace are spaces or tabs, and blank is true exactly when
\* first_nonspace is inside the line and the byte there is a line end;
\* first_nonspace is len(line) only when the offset is.
C39_NonspaceUpToEnd ==
    (panic = "" /\ Finds # {}) =>
       LET line == events[1].line
       IN \A i \in Finds :
             /\ FindSkipsSpaces(i, line)
             /\ events[i].fn <= Len(line)
             /\ events[i].fn = Len(line) => events[i].offset0 = Len(line)
             /\ events[i].blank <=> (/\ events[i].fn < Len(line)
                                     /\ is_line_end_char(At(line, events[i].fn)))

\* A line "#" has given its line end to the heading marker, and the call
\* of add_text_to_container has found first_nonspace at the end of the line;
\* the call before it on the same line has found the "#".
C39_OffsetAtEnd ==
    /\ panic = "" /\ phase = "feed" /\ Finds # {}
    /\ \E i \in Finds :
          /\ events[i].ev = "text"
          /\ events[i].fn = Len(events[1].line)
          /\ ~events[i].blank
    /\ \E i \in Finds :
          /\ events[i].ev = "pass"
          /\ events[i].fn < Len(events[1].line)
          /\ At(events[1].line, events[i].fn) = "#"

\* The sequence of bytes has a line end in it.
HasLineEnd(content) == \E k \in DOMAIN content : is_line_end_char(content[k])

\* The log entries of the fenced CodeBlocks that have been finalized.
FencedFinalized ==
    {i \in Logged("finalize") :
        /\ events[i].open
        /\ Kind(nodes, events[i].node) = "CodeBlock"
        /\ nodes[events[i].node].value.fenced}

\* C40: whenever a fenced CodeBlock is finalized its content has a line end
\* in it, so that assert!(pos < content.len()) holds: after the line that
\* opens a fenced CodeBlock the block has the rest of that line, with its
\* line end, as content.
C40_FenceLineAdded ==
    /\ panic # "assert!(pos < content.len())"
    /\ \A i \in FencedFinalized : HasLineEnd(events[i].content)
    /\ (phase = "feed" /\ panic = "") =>
          \A n \in OpenFenced :
             /\ HasLineEnd(nodes[n].content)
             /\ \A i \in Logged("open") :
                   events[i].node = n
                      => /\ nodes[n].content # <<>>
                         /\ EndsWith(events[1].line, nodes[n].content)

\* A closing fence has finalized a fenced CodeBlock that had the line end of
\* its opening line as its only content.
C40_ClosedAtOnce ==
    /\ phase = "feed" /\ panic = ""
    /\ \E i \in FencedFinalized :
          /\ events[i].content = <<"\n">>
          /\ nodes[events[i].node].value.literal = <<>>
          /\ nodes[events[i].node].sourcepos.start.line = parser.line_number - 1

====
